---- MODULE Spec2Model ----
(***************************************************************************)
(* A model of four parts of the rune compiler front end:                   *)
(*   - the worker's task queue (crates/rune/src/worker/mod.rs),            *)
(*   - the lowering of an index assignment                                 *)
(*     (crates/rune/src/compile/expr_index_set.rs),                        *)
(*   - the lexer (crates/rune/src/parsing/lexer.rs),                       *)
(*   - functions of the syntax tree (crates/rune/src/ast).                 *)
(* Each part has variables of its own and a specification of its own; a    *)
(* specification leaves the variables of the other parts at their initial  *)
(* values.                                                                 *)
(***************************************************************************)
EXTENDS Integers, Sequences, FiniteSets, TLC

VARIABLES
    \* Worker (worker/mod.rs)
    queue,              \* Worker::queue, a VecDeque<Task>
    wildcard_imports,   \* the local Vec of Worker::run
    errors,             \* Worker::errors, the error sink
    loaded,             \* Worker::loaded, the files that have been loaded
    wpc,                \* where Worker::run stands
    wcursor,            \* position of the `for` loop over wildcard_imports
    gen,                \* number of tasks created so far (the next task is gen + 1)
    \* Worker, history
    enqueued,           \* every task pushed to the queue, in push order
    dequeued,           \* every task popped from the queue, in pop order
    resolved,           \* every wildcard import handed to process_local, in order
    failed,             \* the tasks whose processing failed, in order of failure
    indexed,            \* the load-file tasks whose file reached the indexer
    \* Compiler (compile/expr_index_set.rs)
    asm,                \* Compiler::asm, the instruction sink
    cexpr,              \* the ast::ExprIndexSet handed to compile
    cneeds,             \* the Needs handed to compile
    cpc,                \* "ready", then "ok" or "err": the CompileResult
    asm0,               \* history: the sink when compile was called
    \* Lexer (parsing/lexer.rs)
    source,             \* SourceIter::source, a sequence of characters
    pos,                \* SourceIter::pos(): the characters consumed
    modes,              \* Lexer::modes, the stack of LexerMode frames
    buffer,             \* Lexer::buffer, the buffered tokens
    lres,               \* what the last call of Lexer::next returned
    ltok,               \* the token of the last call, if it returned one
    lerr,               \* the error of the last call, if it returned one
    \* Lexer, history
    tokens,             \* the tokens returned so far
    elems,              \* the elements a template source was built from
    \* Syntax tree (ast)
    stream,             \* the tokens the parser has yet to read
    path,               \* an ast::Path
    pcall,              \* the function called last
    pargs,              \* the arguments of the last call
    pret,               \* what the last call returned
    pbefore             \* history: the stream and the path when it was called

workerVars == <<queue, wildcard_imports, errors, loaded, wpc, wcursor, gen,
                enqueued, dequeued, resolved, failed, indexed>>

compileVars == <<asm, cexpr, cneeds, cpc, asm0>>

lexerVars == <<source, pos, modes, buffer, lres, ltok, lerr, tokens, elems>>

parserVars == <<stream, path, pcall, pargs, pret, pbefore>>

vars == <<workerVars, compileVars, lexerVars, parserVars>>

\* What the actions of one part leave alone: the variables of the other parts.
notWorkerVars == <<compileVars, lexerVars, parserVars>>

notCompileVars == <<workerVars, lexerVars, parserVars>>

notLexerVars == <<workerVars, compileVars, parserVars>>

notParserVars == <<workerVars, compileVars, lexerVars>>

(***************************************************************************)
(* Sequences                                                               *)
(***************************************************************************)
IsPrefix(s, t) == Len(s) <= Len(t) /\ \A i \in 1..Len(s) : s[i] = t[i]

Range(s) == {s[i] : i \in 1..Len(s)}

SeqsUpTo(S, n) == UNION {[1..k -> S] : k \in 0..n}

(***************************************************************************)
(*                              THE WORKER                                 *)
(***************************************************************************)

\* Bounds of the worker model.
MaxTasks == 4       \* tasks ever created
MaxSpawn == 2       \* tasks one task may enqueue while it is processed

\* Source ids: 0 is a well-formed source, 1 a malformed one, 2 is in no
\* source set.
SourceIds == {0, 1, 2}

\* Sources::get: the source stored under an id, "none" when there is none.
SourcesGet(source_id) ==
    CASE source_id = 0 -> "wellformed"
      [] source_id = 1 -> "malformed"
      [] OTHER -> "none"

\* crate::parse_all::<ast::File>: whether the source text parses.
ParseAll(text) == text = "wellformed"

\* A task of the queue: Task::LoadFile, Task::ExpandImport or
\* Task::ExpandWildcardImport, with the source id it carries.
TaskKinds == {"LoadFile", "ExpandImport", "ExpandWildcardImport"}

Stamp(new, g) ==
    [i \in 1..Len(new) |->
        [id |-> g + i, kind |-> new[i].kind, source_id |-> new[i].source_id]]

\* What indexing a file may enqueue: load-file tasks for nested modules,
\* expand-import tasks for the imports of the file.
IndexSpawn(source_id) ==
    {[kind |-> "LoadFile", source_id |-> s] : s \in SourceIds}
        \cup {[kind |-> "ExpandImport", source_id |-> source_id]}

\* What expanding an import may enqueue: load-file tasks, and the wildcard
\* import it turned out to be.
ImportSpawn(source_id) ==
    {[kind |-> "LoadFile", source_id |-> s] : s \in SourceIds}
        \cup {[kind |-> "ExpandWildcardImport", source_id |-> source_id]}

PushErrorTwice(errs, source_id) ==
    errs \o <<[source_id |-> source_id, kind |-> "error"],
              [source_id |-> source_id, kind |-> "error"]>>

\* self.errors.push(Error::new(source_id, error))
PushError(errs, source_id) ==
    Append(errs, [source_id |-> source_id, kind |-> "error"])

PushInternalDropped(errs, source_id) == errs

\* self.errors.push(Error::internal(source_id, "missing queued source by id"))
PushInternal(errs, source_id) ==
    Append(errs, [source_id |-> source_id, kind |-> "internal"])

\* `while let Some(task) = self.queue.pop_front()`: the loop goes on while
\* the queue holds a task.
LoopCond(q) == Len(q) > 0

\* VecDeque::pop_front: the task taken, and the queue left.
PopFront(q) == [task |-> q[1], rest |-> SubSeq(q, 2, Len(q))]

PopFrontTask(q) == PopFront(q).task

PopFrontRest(q) == PopFront(q).rest

\* queue.push_back for each task enqueued by the task being processed
PushBackAll(q, new) == q \o new

DeferFront(wi, task) == <<task>> \o wi

\* wildcard_imports.push(wildcard_import)
Defer(wi, task) == Append(wi, task)

AfterTaskRetry(q, task, ok) == IF ok THEN q ELSE Append(q, task)

\* The queue after the task was processed: run() itself puts no task back.
AfterTask(q, task, ok) == q

AfterProcessLocalRequeue(q, task) == Append(q, task)

\* wildcard_import.process_local(&self.query) is handed the query engine
\* only: the queue is out of its reach.
AfterProcessLocal(q, task) == q

OnMissingSourceAbort == "returned"

\* What a missing source does to the run: the task is skipped (`continue`).
OnMissingSource == "loop"

WorkerInit ==
    /\ queue = <<>>
    /\ wildcard_imports = <<>>
    /\ errors = <<>>
    /\ loaded = {}
    /\ wpc = "new"
    /\ wcursor = 1
    /\ gen = 0
    /\ enqueued = <<>>
    /\ dequeued = <<>>
    /\ resolved = <<>>
    /\ failed = <<>>
    /\ indexed = <<>>

\* The caller queues a load-file task for a source before it calls run().
QueueTask ==
    /\ wpc = "new"
    /\ gen < MaxTasks
    /\ \E s \in SourceIds :
        LET new == Stamp(<<[kind |-> "LoadFile", source_id |-> s]>>, gen) IN
        /\ queue' = PushBackAll(queue, new)
        /\ enqueued' = enqueued \o new
        /\ gen' = gen + 1
    /\ UNCHANGED <<wildcard_imports, errors, loaded, wpc, wcursor,
                   dequeued, resolved, failed, indexed>>
    /\ UNCHANGED notWorkerVars

\* Worker::run is entered: let mut wildcard_imports = Vec::new()
Run ==
    /\ wpc = "new"
    /\ wpc' = "loop"
    /\ wildcard_imports' = <<>>
    /\ UNCHANGED <<queue, errors, loaded, wcursor, gen,
                   enqueued, dequeued, resolved, failed, indexed>>
    /\ UNCHANGED notWorkerVars

\* One turn of the loop on a Task::LoadFile whose source is missing.
LoadFileMissing ==
    /\ wpc = "loop"
    /\ LoopCond(queue)
    /\ LET task == PopFrontTask(queue) IN
        /\ task.kind = "LoadFile"
        /\ SourcesGet(task.source_id) = "none"
        /\ errors' = PushInternal(errors, task.source_id)
        /\ queue' = AfterTask(PopFrontRest(queue), task, FALSE)
        /\ dequeued' = Append(dequeued, task)
        /\ failed' = Append(failed, task)
        /\ wpc' = OnMissingSource
    /\ UNCHANGED <<wildcard_imports, loaded, wcursor, gen, enqueued,
                   resolved, indexed>>
    /\ UNCHANGED notWorkerVars

\* One turn of the loop on a Task::LoadFile whose source does not parse.
LoadFileParseError ==
    /\ wpc = "loop"
    /\ LoopCond(queue)
    /\ LET task == PopFrontTask(queue) IN
        /\ task.kind = "LoadFile"
        /\ SourcesGet(task.source_id) /= "none"
        /\ ~ParseAll(SourcesGet(task.source_id))
        /\ errors' = PushError(errors, task.source_id)
        /\ queue' = AfterTask(PopFrontRest(queue), task, FALSE)
        /\ dequeued' = Append(dequeued, task)
        /\ failed' = Append(failed, task)
    /\ UNCHANGED <<wildcard_imports, loaded, wpc, wcursor, gen, enqueued,
                   resolved, indexed>>
    /\ UNCHANGED notWorkerVars

\* One turn of the loop on a Task::LoadFile whose file is parsed and indexed.
\* The indexer enqueues `new` and records the module files among them as
\* loaded; it succeeds (ok) or fails, after whatever it enqueued.
LoadFileIndex ==
    /\ wpc = "loop"
    /\ LoopCond(queue)
    /\ LET task == PopFrontTask(queue) IN
        /\ task.kind = "LoadFile"
        /\ SourcesGet(task.source_id) /= "none"
        /\ ParseAll(SourcesGet(task.source_id))
        /\ \E tmpl \in SeqsUpTo(IndexSpawn(task.source_id), MaxSpawn), ok \in BOOLEAN :
            LET new == Stamp(tmpl, gen) IN
            /\ gen + Len(new) <= MaxTasks
            /\ queue' = AfterTask(PushBackAll(PopFrontRest(queue), new), task, ok)
            /\ enqueued' = enqueued \o new
            /\ gen' = gen + Len(new)
            /\ loaded' = loaded \cup {t.id : t \in {x \in Range(new) : x.kind = "LoadFile"}}
            /\ errors' = IF ok THEN errors ELSE PushError(errors, task.source_id)
            /\ failed' = IF ok THEN failed ELSE Append(failed, task)
        /\ dequeued' = Append(dequeued, task)
        /\ indexed' = Append(indexed, task)
    /\ UNCHANGED <<wildcard_imports, wpc, wcursor, resolved>>
    /\ UNCHANGED notWorkerVars

\* One turn of the loop on a Task::ExpandImport: import.process(.., add_task)
ExpandImport ==
    /\ wpc = "loop"
    /\ LoopCond(queue)
    /\ LET task == PopFrontTask(queue) IN
        /\ task.kind = "ExpandImport"
        /\ \E tmpl \in SeqsUpTo(ImportSpawn(task.source_id), MaxSpawn), ok \in BOOLEAN :
            LET new == Stamp(tmpl, gen) IN
            /\ gen + Len(new) <= MaxTasks
            /\ queue' = AfterTask(PushBackAll(PopFrontRest(queue), new), task, ok)
            /\ enqueued' = enqueued \o new
            /\ gen' = gen + Len(new)
            /\ errors' = IF ok THEN errors ELSE PushError(errors, task.source_id)
            /\ failed' = IF ok THEN failed ELSE Append(failed, task)
        /\ dequeued' = Append(dequeued, task)
    /\ UNCHANGED <<wildcard_imports, loaded, wpc, wcursor, resolved, indexed>>
    /\ UNCHANGED notWorkerVars

ExpandWildcardImportEager ==
    /\ wpc = "loop"
    /\ LoopCond(queue)
    /\ LET task == PopFrontTask(queue) IN
        /\ task.kind = "ExpandWildcardImport"
        /\ \E ok \in BOOLEAN :
            /\ errors' = IF ok THEN errors ELSE PushError(errors, task.source_id)
            /\ failed' = IF ok THEN failed ELSE Append(failed, task)
        /\ resolved' = Append(resolved, task)
        /\ queue' = PopFrontRest(queue)
        /\ dequeued' = Append(dequeued, task)
    /\ UNCHANGED <<wildcard_imports, loaded, wpc, wcursor, gen, enqueued, indexed>>
    /\ UNCHANGED notWorkerVars

\* One turn of the loop on a Task::ExpandWildcardImport: it is deferred.
ExpandWildcardImport ==
    /\ wpc = "loop"
    /\ LoopCond(queue)
    /\ LET task == PopFrontTask(queue) IN
        /\ task.kind = "ExpandWildcardImport"
        /\ wildcard_imports' = Defer(wildcard_imports, task)
        /\ queue' = PopFrontRest(queue)
        /\ dequeued' = Append(dequeued, task)
    /\ UNCHANGED <<errors, loaded, wpc, wcursor, gen, enqueued,
                   resolved, failed, indexed>>
    /\ UNCHANGED notWorkerVars

\* pop_front returned None: the while loop is left for the for loop.
LoopExit ==
    /\ wpc = "loop"
    /\ ~LoopCond(queue)
    /\ wpc' = "wildcards"
    /\ wcursor' = 1
    /\ UNCHANGED <<queue, wildcard_imports, errors, loaded, gen,
                   enqueued, dequeued, resolved, failed, indexed>>
    /\ UNCHANGED notWorkerVars

\* One turn of `for wildcard_import in wildcard_imports`.
ProcessLocal ==
    /\ wpc = "wildcards"
    /\ wcursor <= Len(wildcard_imports)
    /\ LET task == wildcard_imports[wcursor] IN
        /\ \E ok \in BOOLEAN :
            /\ errors' = IF ok THEN errors ELSE PushError(errors, task.source_id)
            /\ failed' = IF ok THEN failed ELSE Append(failed, task)
        /\ queue' = AfterProcessLocal(queue, task)
        /\ resolved' = Append(resolved, task)
    /\ wcursor' = wcursor + 1
    /\ UNCHANGED <<wildcard_imports, loaded, wpc, gen, enqueued, dequeued, indexed>>
    /\ UNCHANGED notWorkerVars

\* The for loop is over: run() returns.
Return ==
    /\ wpc = "wildcards"
    /\ wcursor > Len(wildcard_imports)
    /\ wpc' = "returned"
    /\ UNCHANGED <<queue, wildcard_imports, errors, loaded, wcursor, gen,
                   enqueued, dequeued, resolved, failed, indexed>>
    /\ UNCHANGED notWorkerVars

RunStep ==
    \/ Run
    \/ LoadFileMissing
    \/ LoadFileParseError
    \/ LoadFileIndex
    \/ ExpandImport
    \/ ExpandWildcardImport
    \/ LoopExit
    \/ ProcessLocal
    \/ Return

WorkerNext == QueueTask \/ RunStep


(***************************************************************************)
(*                    THE LOWERING OF AN INDEX ASSIGNMENT                  *)
(***************************************************************************)

\* Bound of the compiler model: the literals are 1..MaxLit.
MaxLit == 1

\* Instructions of the sink. Inst::IndexSet, Inst::Unit, and the instruction
\* a literal leaves its value with.
InstIndexSet == [op |-> "IndexSet", n |-> 0]

InstUnit == [op |-> "Unit", n |-> 0]

InstPush(n) == [op |-> "Push", n |-> n]

\* Needs::value()
NeedsValue(needs) == needs = "Value"

\* Expressions: a literal, an expression that does not compile, and an index
\* assignment of such expressions.
LeafExprs == {[tag |-> "Lit", n |-> n] : n \in 1..MaxLit} \cup {[tag |-> "Bad", n |-> 0]}

IndexSetOf(S) ==
    {[tag |-> "IndexSet", value |-> v, index |-> i, target |-> t] : v, i, t \in S}

SubExprs == LeafExprs \cup IndexSetOf(LeafExprs)

Nodes == IndexSetOf(SubExprs)

\* Compiling a leaf: a literal leaves one value if one is needed and nothing
\* otherwise; the other leaf is a compile error.
CompileLeaf(e, needs, sink) ==
    IF e.tag = "Lit"
    THEN [asm |-> IF NeedsValue(needs) THEN Append(sink, InstPush(e.n)) ELSE sink,
          ok |-> TRUE]
    ELSE [asm |-> sink, ok |-> FALSE]

EvalOrderReversed(e) == <<e.target, e.index, e.value>>

\* The order of the three self.compile calls: value, index, target.
EvalOrder(e) == <<e.value, e.index, e.target>>

SubNeedsOuter(needs) == needs

\* The needs each sub-expression is compiled with: Needs::Value.
SubNeeds(needs) == "Value"

FailedIgnored(r) == FALSE

\* The `?` after each self.compile call: an error is returned at once.
Failed(r) == ~r.ok

\* self.asm.push(Inst::IndexSet, span), then a unit in case a value is needed.
EmitTail(sink, needs) ==
    LET a == Append(sink, InstIndexSet) IN
    IF NeedsValue(needs) THEN Append(a, InstUnit) ELSE a

RECURSIVE CompileExpr(_, _, _)
RECURSIVE CompileSubs(_, _, _)

\* The three self.compile calls in turn, each on the sink the one before
\* left, up to the first that fails.
CompileSubs(subs, needs, sink) ==
    IF subs = <<>>
    THEN [asm |-> sink, ok |-> TRUE]
    ELSE LET r == CompileExpr(Head(subs), SubNeeds(needs), sink) IN
         IF Failed(r) THEN [asm |-> r.asm, ok |-> FALSE]
         ELSE CompileSubs(Tail(subs), needs, r.asm)

\* Compile<(&ast::ExprIndexSet, Needs)>::compile
CompileIndexSet(e, needs, sink) ==
    LET r == CompileSubs(EvalOrder(e), needs, sink) IN
    IF ~r.ok THEN r
    ELSE [asm |-> EmitTail(r.asm, needs), ok |-> TRUE]

\* self.compile((expr, needs)) on any expression
CompileExpr(e, needs, sink) ==
    IF e.tag = "IndexSet"
    THEN CompileIndexSet(e, needs, sink)
    ELSE CompileLeaf(e, needs, sink)

\* The sinks compile may be called on.
InitialSinks == {<<>>, <<InstUnit>>}

CompileInit ==
    /\ cexpr \in Nodes
    /\ cneeds \in {"Value", "None"}
    /\ asm \in InitialSinks
    /\ asm0 = asm
    /\ cpc = "ready"

\* The compiler is not part of the run.
CompileIdle ==
    /\ cexpr = [tag |-> "Bad", n |-> 0]
    /\ cneeds = "None"
    /\ asm = <<>>
    /\ asm0 = <<>>
    /\ cpc = "idle"

\* compile((expr_index_set, needs)) is called.
Compile ==
    /\ cpc = "ready"
    /\ LET r == CompileIndexSet(cexpr, cneeds, asm) IN
        /\ asm' = r.asm
        /\ cpc' = IF r.ok THEN "ok" ELSE "err"
    /\ UNCHANGED <<cexpr, cneeds, asm0>>
    /\ UNCHANGED notCompileVars

CompileNext == Compile

(***************************************************************************)
(*                               THE LEXER                                 *)
(***************************************************************************)

\* Characters are strings of length one; the source is a sequence of them.
\* All are ASCII, so a character is one byte and spans count characters.
LowerChars == {"a", "b", "c", "d", "e", "f", "g", "h", "i", "j", "k", "l", "m",
               "n", "o", "p", "q", "r", "s", "t", "u", "v", "w", "x", "y", "z"}

UpperChars == {"A", "B", "C", "D", "E", "F", "G", "H", "I", "J", "K", "L", "M",
               "N", "O", "P", "Q", "R", "S", "T", "U", "V", "W", "X", "Y", "Z"}

DigitChars == {"0", "1", "2", "3", "4", "5", "6", "7", "8", "9"}

\* char::is_whitespace
IsWhitespace(c) == c \in {" ", "\t", "\n", "\r"}

\* char::is_control
IsControl(c) == c \in {"\t", "\n", "\r"}

\* char::is_alphanumeric
IsAlphanumeric(c) == c \in LowerChars \cup UpperChars \cup DigitChars

\* char::is_numeric
IsNumeric(c) == c \in DigitChars

\* The back-tick character, which a string of this language cannot hold.
BackTick == "BACKTICK"

\* Option::None of SourceIter::peek and SourceIter::next
NoChar == "None"

\* SourceIter::peek with the iterator at position p
Peek(p) == IF p < Len(source) THEN source[p + 1] ELSE NoChar

\* The position after one SourceIter::next at position p
Advance(p) == IF p < Len(source) THEN p + 1 ELSE p

\* LexerMode::Default(level) and LexerMode::Template(expressions)
ModeDefault(level) == [kind |-> "Default", n |-> level]

ModeTemplate(expressions) == [kind |-> "Template", n |-> expressions]

ModesLastIgnored(ms) == ModeDefault(0)

\* LexerModes::last
ModesLast(ms) == IF ms = <<>> THEN ModeDefault(0) ELSE ms[Len(ms)]

ModesRestKept(ms) == ms

\* Vec::pop on the frames: what is left
ModesRest(ms) == IF ms = <<>> THEN <<>> ELSE SubSeq(ms, 1, Len(ms) - 1)

ModesPushTwice(ms, mode) == Append(Append(ms, mode), mode)

\* LexerModes::push
ModesPush(ms, mode) == Append(ms, mode)

HasExpressionCountNever(ms) == FALSE

\* LexerModes::expression_count finds a Template frame on top
HasExpressionCount(ms) == ms /= <<>> /\ ms[Len(ms)].kind = "Template"

SetExpressionCountLost(ms, n) == ms

\* *expressions = n, through the reference expression_count returned
SetExpressionCount(ms, n) == [ms EXCEPT ![Len(ms)] = ModeTemplate(n)]

TokPoint(kind, start, end) ==
    [kind |-> kind, start |-> end, end |-> end, escaped |-> FALSE,
     wrapped |-> FALSE, is_fractional |-> FALSE, base |-> "None"]

\* ast::Token
Tok(kind, start, end) ==
    [kind |-> kind, start |-> start, end |-> end, escaped |-> FALSE,
     wrapped |-> FALSE, is_fractional |-> FALSE, base |-> "None"]

TokStrUnwrapped(kind, start, end, escaped, wrapped) ==
    [Tok(kind, start, end) EXCEPT !.escaped = escaped, !.wrapped = FALSE]

\* A token of kind LitStr or LitByteStr, with its LitStrSourceText
TokStr(kind, start, end, escaped, wrapped) ==
    [Tok(kind, start, end) EXCEPT !.escaped = escaped, !.wrapped = wrapped]

\* A token of kind LitNumber, with its NumberSourceText
TokNumber(start, end, is_fractional, base) ==
    [Tok("LitNumber", start, end) EXCEPT !.is_fractional = is_fractional, !.base = base]

NoToken == Tok("None", 0, 0)

\* ParseError::new(span, kind)
Err(kind, start, end) == [kind |-> kind, start |-> start, end |-> end]

NoError == Err("None", 0, 0)

\* What a call leaves: the lexer's state and Ok(Some(token)), Ok(None) or Err
RetToken(p, ms, buf, tok) ==
    [pos |-> p, modes |-> ms, buffer |-> buf, res |-> "token", tok |-> tok, err |-> NoError]

RetEofRewound(p, ms, buf) ==
    [pos |-> 0, modes |-> ms, buffer |-> buf, res |-> "eof", tok |-> NoToken, err |-> NoError]

RetEof(p, ms, buf) ==
    [pos |-> p, modes |-> ms, buffer |-> buf, res |-> "eof", tok |-> NoToken, err |-> NoError]

RetError(p, ms, buf, err) ==
    [pos |-> p, modes |-> ms, buffer |-> buf, res |-> "error", tok |-> NoToken, err |-> err]

\* template_next returned Ok(()): the loop of next goes on
RetContinue(p, ms, buf) ==
    [pos |-> p, modes |-> ms, buffer |-> buf, res |-> "continue", tok |-> NoToken, err |-> NoError]

\* ast::Kind::from_keyword, on the keywords the model's sources can spell
Keywords == {<<"f", "n">>, <<"i", "f">>, <<"a", "s">>}

FromKeyword(ident) ==
    CASE ident = <<"f", "n">> -> "Fn"
      [] ident = <<"i", "f">> -> "If"
      [] ident = <<"a", "s">> -> "As"
      [] OTHER -> "Ident"

\* next_ident: the loop over the characters of the identifier
RECURSIVE ScanIdent(_)
ScanIdent(p) ==
    IF Peek(p) \in LowerChars \cup UpperChars \cup DigitChars \cup {"_"}
    THEN ScanIdent(p + 1)
    ELSE p

\* Lexer::next_ident
NextIdent(start, p, ms, buf) ==
    LET end == ScanIdent(p) IN
    RetToken(end, ms, buf, Tok(FromKeyword(SubSeq(source, start + 1, end)), start, end))

DotBreakUnconsumed(p) == [pos |-> p, is_fractional |-> FALSE]

\* next_number_literal, the `break` after a dot that no digit follows: the
\* dot at p is consumed and the number marked fractional before the test
DotBreak(p) == [pos |-> p + 1, is_fractional |-> TRUE]

\* next_number_literal: the loop over the body of the number
RECURSIVE ScanNumber(_, _)
ScanNumber(p, is_fractional) ==
    LET c == Peek(p) IN
    IF c = NoChar THEN [pos |-> p, is_fractional |-> is_fractional]
    ELSE IF IsAlphanumeric(c) THEN ScanNumber(p + 1, is_fractional)
    ELSE IF c = "." /\ ~is_fractional
         THEN IF IsNumeric(Peek(p + 1))
              THEN ScanNumber(p + 1, TRUE)
              ELSE DotBreak(p)
    ELSE [pos |-> p, is_fractional |-> is_fractional]

\* Lexer::next_number_literal
NextNumberLiteral(c, start, p, ms, buf) ==
    LET m == Peek(p)
        base == IF c = "0" /\ m = "x" THEN "Hex"
                ELSE IF c = "0" /\ m = "b" THEN "Binary"
                ELSE IF c = "0" /\ m = "o" THEN "Octal"
                ELSE "Decimal"
        p1 == IF base = "Decimal" THEN p ELSE p + 1
        r == ScanNumber(p1, FALSE)
    IN  RetToken(r.pos, ms, buf, TokNumber(start, r.pos, r.is_fractional, base))

EndOfInputAccepted(start, p, is_label) ==
    [pos |-> p, is_label |-> is_label, err |-> NoError]

\* next_char_or_label, the end of the input (peek is None): an error if the
\* scan is still a label, the end of the loop if not
EndOfInput(start, p, is_label) ==
    IF is_label
    THEN [pos |-> p, is_label |-> TRUE,
          err |-> Err("ExpectedCharClose", start, Len(source))]
    ELSE [pos |-> p, is_label |-> FALSE, err |-> NoError]

LabelEndsNever(is_label, char_count) == FALSE

LabelEndsAtOnce(is_label, char_count) == is_label

\* next_char_or_label, the guard `_ if is_label && char_count > 0`
LabelEnds(is_label, char_count) == is_label /\ char_count > 0

\* next_char_or_label: the loop; where it stops, whether the scan is still a
\* label, and the error if it returned one
RECURSIVE ScanCharOrLabel(_, _, _, _)
ScanCharOrLabel(start, p, is_label, char_count) ==
    LET c == Peek(p) IN
    IF c = NoChar
    THEN EndOfInput(start, p, is_label)
    ELSE IF c = "\\"
    THEN ScanCharOrLabel(start, Advance(p + 1), FALSE, char_count + 1)
    ELSE IF c = "'"
    THEN [pos |-> p + 1, is_label |-> FALSE, err |-> NoError]
    ELSE IF c \in DigitChars \cup LowerChars
    THEN ScanCharOrLabel(start, p + 1, is_label, char_count + 1)
    ELSE IF IsControl(c)
    THEN [pos |-> p, is_label |-> is_label, err |-> Err("UnterminatedCharLit", start, p)]
    ELSE IF LabelEnds(is_label, char_count)
    THEN [pos |-> p, is_label |-> TRUE, err |-> NoError]
    ELSE ScanCharOrLabel(start, p + 1, FALSE, char_count + 1)

\* Lexer::next_char_or_label
NextCharOrLabel(start, p, ms, buf) ==
    LET r == ScanCharOrLabel(start, p, TRUE, 0) IN
    IF r.err /= NoError THEN RetError(r.pos, ms, buf, r.err)
    ELSE RetToken(r.pos, ms, buf,
                  Tok(IF r.is_label THEN "Label" ELSE "LitChar", start, r.pos))

\* next_lit_byte: the loop
RECURSIVE ScanLitByte(_, _)
ScanLitByte(start, p) ==
    LET c == Peek(p) IN
    IF c = NoChar
    THEN [pos |-> p, err |-> Err("ExpectedByteClose", start, p)]
    ELSE IF c = "\\" THEN ScanLitByte(start, Advance(p + 1))
    ELSE IF c = "'" THEN [pos |-> p + 1, err |-> NoError]
    ELSE IF IsControl(c)
    THEN [pos |-> p + 1, err |-> Err("UnterminatedByteLit", start, p + 1)]
    ELSE ScanLitByte(start, p + 1)

\* Lexer::next_lit_byte
NextLitByte(start, p, ms, buf) ==
    LET r == ScanLitByte(start, p) IN
    IF r.err /= NoError THEN RetError(r.pos, ms, buf, r.err)
    ELSE RetToken(r.pos, ms, buf, Tok("LitByte", start, r.pos))

\* next_str: the loop
RECURSIVE ScanStr(_, _, _, _)
ScanStr(start, p, escaped, error_kind) ==
    LET c == Peek(p) IN
    IF c = NoChar
    THEN [pos |-> p, escaped |-> escaped, err |-> Err(error_kind, start, p)]
    ELSE IF c = "\""
    THEN [pos |-> p + 1, escaped |-> escaped, err |-> NoError]
    ELSE IF c = "\\"
    THEN IF Peek(p + 1) = NoChar
         THEN [pos |-> p + 1, escaped |-> escaped,
               err |-> Err("ExpectedEscape", start, Len(source))]
         ELSE ScanStr(start, p + 1, TRUE, error_kind)
    ELSE ScanStr(start, p + 1, escaped, error_kind)

\* Lexer::next_str
NextStr(start, p, error_kind, kind, ms, buf) ==
    LET r == ScanStr(start, p, FALSE, error_kind) IN
    IF r.err /= NoError THEN RetError(r.pos, ms, buf, r.err)
    ELSE RetToken(r.pos, ms, buf, TokStr(kind, start, r.pos, r.escaped, TRUE))

ConsumeLineNothing(p) == p

\* Lexer::consume_line
RECURSIVE ConsumeLine(_)
ConsumeLine(p) ==
    IF Peek(p) = NoChar THEN p
    ELSE IF Peek(p) = "\n" THEN p + 1
    ELSE ConsumeLine(p + 1)

NeedsCommaAlways(expressions) == TRUE

\* `if *expressions > 0`: a comma is buffered before a segment or a hole
NeedsComma(expressions) == expressions > 0

\* template_next: the literal segment before a `{` or a closing back-tick,
\* buffered with the comma before it; the buffer and the expression count
SegmentBuffered(start, p, escaped, expressions, buf) ==
    IF start /= p
    THEN [buffer |-> (IF NeedsComma(expressions)
                      THEN Append(buf, Tok("Comma", start, p)) ELSE buf)
                     \o <<TokStr("LitStr", start, p, escaped, FALSE)>>,
          expressions |-> expressions + 1]
    ELSE [buffer |-> buf, expressions |-> expressions]

\* template_next: the loop over the characters of the template
RECURSIVE ScanTemplate(_, _, _, _, _)
ScanTemplate(start, p, escaped, ms, buf) ==
    LET c == Peek(p) IN
    IF c = NoChar
    THEN RetError(p, ms, buf, Err("UnexpectedEof", p, p))
    ELSE IF c = "{"
    THEN IF ~HasExpressionCount(ms)
         THEN RetError(p, ms, buf, Err("ExpectedTemplateMode", start, p))
         ELSE LET seg == SegmentBuffered(start, p, escaped, ModesLast(ms).n, buf)
                  buf2 == IF NeedsComma(seg.expressions)
                          THEN Append(seg.buffer, Tok("Comma", p, p + 1))
                          ELSE seg.buffer
              IN  RetContinue(p + 1,
                              ModesPush(SetExpressionCount(ms, seg.expressions),
                                        ModeDefault(1)),
                              buf2)
    ELSE IF c = "}"
    THEN RetError(p + 1, ms, buf, Err("UnexpectedCloseBrace", p, p + 1))
    ELSE IF c = "\\"
    THEN IF Peek(p + 1) = NoChar
         THEN RetError(p + 1, ms, buf, Err("ExpectedEscape", start, Len(source)))
         ELSE ScanTemplate(start, p + 2, TRUE, ms, buf)
    ELSE IF c = BackTick
    THEN IF ~HasExpressionCount(ms)
         THEN RetError(p + 1, ms, buf, Err("ExpectedTemplateMode", p, p + 1))
         ELSE LET seg == SegmentBuffered(start, p, escaped, ModesLast(ms).n, buf)
                  buf2 == Append(seg.buffer, Tok("CloseBrace", p, p + 1))
                  top == ModesLast(SetExpressionCount(ms, seg.expressions))
              IN  IF top /= ModeTemplate(seg.expressions)
                  THEN RetError(p + 1, ModesRest(ms), buf2, Err("BadLexerMode", p + 1, p + 1))
                  ELSE RetContinue(p + 1, ModesRest(ms), buf2)
    ELSE ScanTemplate(start, p + 1, escaped, ms, buf)

\* Lexer::template_next
TemplateNext(p, ms, buf) == ScanTemplate(p, p, FALSE, ms, buf)

MergeKindNone(c, c2) == "None"

\* Lexer::next, the two-character operators that are one token
MergeKind(c, c2) ==
    CASE c = "+" /\ c2 = "=" -> "PlusEq"
      [] c = "-" /\ c2 = "=" -> "DashEq"
      [] c = "*" /\ c2 = "=" -> "StarEq"
      [] c = "/" /\ c2 = "=" -> "SlashEq"
      [] c = "%" /\ c2 = "=" -> "PercEq"
      [] c = "&" /\ c2 = "=" -> "AmpEq"
      [] c = "^" /\ c2 = "=" -> "CaretEq"
      [] c = "|" /\ c2 = "=" -> "PipeEq"
      [] c = ":" /\ c2 = ":" -> "ColonColon"
      [] c = "<" /\ c2 = "=" -> "LtEq"
      [] c = ">" /\ c2 = "=" -> "GtEq"
      [] c = "=" /\ c2 = "=" -> "EqEq"
      [] c = "!" /\ c2 = "=" -> "BangEq"
      [] c = "&" /\ c2 = "&" -> "AmpAmp"
      [] c = "|" /\ c2 = "|" -> "PipePipe"
      [] c = "." /\ c2 = "." -> "DotDot"
      [] c = "=" /\ c2 = ">" -> "Rocket"
      [] c = "-" /\ c2 = ">" -> "Arrow"
      [] OTHER -> "None"

\* Lexer::next, the characters that are a token on their own
SingleKind(c) ==
    CASE c = "(" -> "OpenParen"
      [] c = ")" -> "CloseParen"
      [] c = "[" -> "OpenBracket"
      [] c = "]" -> "CloseBracket"
      [] c = "_" -> "Underscore"
      [] c = "," -> "Comma"
      [] c = ":" -> "Colon"
      [] c = "#" -> "Pound"
      [] c = "." -> "Dot"
      [] c = ";" -> "SemiColon"
      [] c = "=" -> "Eq"
      [] c = "+" -> "Plus"
      [] c = "-" -> "Dash"
      [] c = "/" -> "Div"
      [] c = "*" -> "Star"
      [] c = "&" -> "Amp"
      [] c = ">" -> "Gt"
      [] c = "<" -> "Lt"
      [] c = "!" -> "Bang"
      [] c = "?" -> "QuestionMark"
      [] c = "|" -> "Pipe"
      [] c = "%" -> "Perc"
      [] c = "^" -> "Caret"
      [] c = "@" -> "At"
      [] c = "$" -> "Dollar"
      [] c = "~" -> "Tilde"
      [] OTHER -> "None"

PopMatchesAlways(ms, expected) == TRUE

\* LexerModes::pop(expected) seen from its caller: whether the frame popped
\* is the one expected
PopMatches(ms, expected) == ModesLast(ms) = expected

DefaultTokenStuck(c, start, p, level, ms, buf) ==
    RetToken(start, ms, buf, Tok("At", start, p))

\* Lexer::next, from the two-character match on, for the character c read at
\* `start` in Default(level), the iterator now at p
DefaultToken(c, start, p, level, ms, buf) ==
    LET c2 == Peek(p) IN
    IF MergeKind(c, c2) /= "None"
    THEN RetToken(p + 1, ms, buf, Tok(MergeKind(c, c2), start, p + 1))
    ELSE IF c = "/" /\ c2 = "/"
    THEN RetContinue(ConsumeLine(p), ms, buf)
    ELSE IF c = "<" /\ c2 = "<"
    THEN IF Peek(p + 1) = "="
         THEN RetToken(p + 2, ms, buf, Tok("LtLtEq", start, p + 2))
         ELSE RetToken(p + 1, ms, buf, Tok("LtLt", start, p + 1))
    ELSE IF c = ">" /\ c2 = ">"
    THEN IF Peek(p + 1) = "="
         THEN RetToken(p + 2, ms, buf, Tok("GtGtEq", start, p + 2))
         ELSE RetToken(p + 1, ms, buf, Tok("GtGt", start, p + 1))
    ELSE IF c = "b" /\ c2 = "'"
    THEN NextLitByte(start, Advance(p + 1), ms, buf)
    ELSE IF c = "b" /\ c2 = "\""
    THEN NextStr(start, p + 1, "UnterminatedByteStrLit", "LitByteStr", ms, buf)
    ELSE IF c = "{"
    THEN RetToken(p, IF level > 0 THEN ModesPush(ms, ModeDefault(level + 1)) ELSE ms,
                  buf, Tok("OpenBrace", start, p))
    ELSE IF c = "}"
    THEN IF level > 0
         THEN IF ~PopMatches(ms, ModeDefault(level))
              THEN RetError(p, ModesRest(ms), buf, Err("BadLexerMode", p, p))
              ELSE IF level = 1
              THEN IF ~HasExpressionCount(ModesRest(ms))
                   THEN RetError(p, ModesRest(ms), buf,
                                 Err("ExpectedTemplateMode", start, p))
                   ELSE RetContinue(p,
                            SetExpressionCount(ModesRest(ms),
                                               ModesLast(ModesRest(ms)).n + 1),
                            buf)
              ELSE RetToken(p, ModesRest(ms), buf, Tok("CloseBrace", start, p))
         ELSE RetToken(p, ms, buf, Tok("CloseBrace", start, p))
    ELSE IF SingleKind(c) /= "None"
    THEN RetToken(p, ms, buf, Tok(SingleKind(c), start, p))
    ELSE IF c \in LowerChars \cup UpperChars
    THEN NextIdent(start, p, ms, buf)
    ELSE IF c \in DigitChars
    THEN NextNumberLiteral(c, start, p, ms, buf)
    ELSE IF c = "\""
    THEN NextStr(start, p, "UnterminatedStrLit", "LitStr", ms, buf)
    ELSE IF c = BackTick
    THEN RetContinue(p, ModesPush(ms, ModeTemplate(0)),
                     buf \o <<Tok("Template", start, p), Tok("OpenBrace", start, p)>>)
    ELSE IF c = "'"
    THEN NextCharOrLabel(start, p, ms, buf)
    ELSE RetError(p, ms, buf, Err("UnexpectedChar", start, Len(source)))

\* Lexer::next: the lexer's state after the call, and what the call returned
RECURSIVE LexerNext(_, _, _)
LexerNext(p, ms, buf) ==
    IF buf /= <<>>
    THEN RetToken(p, ms, Tail(buf), Head(buf))
    ELSE IF ModesLast(ms).kind = "Template"
    THEN LET r == TemplateNext(p, ms, buf) IN
         IF r.res = "continue" THEN LexerNext(r.pos, r.modes, r.buffer) ELSE r
    ELSE IF Peek(p) = NoChar
    THEN IF PopMatches(ms, ModeDefault(0))
         THEN RetEof(p, ModesRest(ms), buf)
         ELSE RetError(p, ModesRest(ms), buf, Err("BadLexerMode", p, p))
    ELSE IF IsWhitespace(Peek(p))
    THEN LexerNext(p + 1, ms, buf)
    ELSE LET r == DefaultToken(Peek(p), p, p + 1, ModesLast(ms).n, ms, buf) IN
         IF r.res = "continue" THEN LexerNext(r.pos, r.modes, r.buffer) ELSE r

\* Lexer::new on a source
LexerNew(src, built) ==
    /\ source = src
    /\ elems = built
    /\ pos = 0
    /\ modes = <<>>
    /\ buffer = <<>>
    /\ lres = "none"
    /\ ltok = NoToken
    /\ lerr = NoError
    /\ tokens = <<>>

\* Bound of the template sources: the elements of one template.
MaxElems == 3

\* The elements a template source is built from: literal segments and
\* interpolation holes, each with its text and, for a hole, the tokens its
\* text lexes to in default mode (kind, offset in the element, length).
HoleTok(kind, at, len) == [kind |-> kind, at |-> at, len |-> len]

Segment(text, escaped) ==
    [kind |-> "lit", text |-> text, escaped |-> escaped, toks |-> <<>>]

Hole(text, toks) ==
    [kind |-> "hole", text |-> text, escaped |-> FALSE, toks |-> toks]

TemplateElems ==
    { Segment(<<"a">>, FALSE),
      Segment(<<"a", " ">>, FALSE),
      Segment(<<"\\", BackTick>>, TRUE),
      Hole(<<"{", "a", "}">>, <<HoleTok("Ident", 1, 1)>>),
      Hole(<<"{", "a", " ", "a", "}">>,
           <<HoleTok("Ident", 1, 1), HoleTok("Ident", 3, 1)>>),
      Hole(<<"{", "{", "a", "}", "}">>,
           <<HoleTok("OpenBrace", 1, 1), HoleTok("Ident", 2, 1),
             HoleTok("CloseBrace", 3, 1)>>),
      Hole(<<"{", BackTick, "a", BackTick, "}">>,
           <<HoleTok("Template", 1, 1), HoleTok("OpenBrace", 1, 1),
             HoleTok("LitStr", 2, 1), HoleTok("CloseBrace", 3, 1)>>),
      Hole(<<"{", "}">>, <<>>),
      Hole(<<"{", " ", "}">>, <<>>) }

RECURSIVE Flatten(_)
Flatten(es) == IF es = <<>> THEN <<>> ELSE Head(es).text \o Flatten(Tail(es))

\* Two literal segments in a row are one segment: a template is a sequence
\* of elements with no two segments adjacent.
IsTemplate(es) ==
    \A i \in 1..Len(es) - 1 : ~(es[i].kind = "lit" /\ es[i + 1].kind = "lit")

\* Lexer::new on a terminated template literal
TemplateInit ==
    \E es \in SeqsUpTo(TemplateElems, MaxElems) :
        /\ IsTemplate(es)
        /\ LexerNew(<<BackTick>> \o Flatten(es) \o <<BackTick>>, es)

\* Bound of the sources of templates and braces: their length.
MaxModeLen == 5

\* The characters that open and close templates, holes and braces, and one
\* character of text.
ModeChars == {BackTick, "{", "}", "a"}

\* Lexer::new on a source of templates and braces, terminated or not
ModeInit ==
    \E src \in SeqsUpTo(ModeChars, MaxModeLen) : LexerNew(src, <<>>)

\* Bound of the sources of numbers: their length.
MaxNumLen == 5

\* Digits, the dot, a letter and the parentheses.
NumberChars == {"0", "1", ".", "a", "(", ")"}

\* Lexer::new on a source of numbers, dots and identifiers
NumberInit ==
    \E src \in SeqsUpTo(NumberChars, MaxNumLen) : LexerNew(src, <<>>)

\* Bound of the sources of operators: their length.
MaxOpLen == 3

\* The characters of the operators of the merge table, and the space.
OperatorChars == {"+", "-", "*", "/", "%", "&", "^", "|", "<", ">", "=", "!", ".", " "}

\* Lexer::new on a source of operator characters and spaces
OperatorInit ==
    \E src \in SeqsUpTo(OperatorChars, MaxOpLen) : LexerNew(src, <<>>)

\* Bound of the sources of quoted literals and labels: their length.
MaxQuoteLen == 4

\* The quotes, the backslash, the back-tick, letters, the space and the
\* newline.
QuoteChars == {"'", "\"", "\\", BackTick, "a", "A", "b", " ", "\n"}

\* The source of test_label
TestLabelSource ==
    <<"'", "a", "s", "d", "f", " ", "'", "a", "'", " ",
      "\"", "f", "o", "o", " ", "b", "a", "r", "\"">>

\* Lexer::new on a source of quoted literals and labels, terminated or not
QuoteInit ==
    \E src \in SeqsUpTo(QuoteChars, MaxQuoteLen) \cup {TestLabelSource} :
        LexerNew(src, <<>>)

\* Bound of the sources of strings and templates: their length in pieces.
MaxFlagLen == 5

\* The pieces of a source of strings and templates: the back-tick, the
\* quote, a backslash escape, a letter, a hole and the `b` of a byte string.
FlagPieces ==
    {<<BackTick>>, <<"\"">>, <<"\\", "a">>, <<"a">>, <<"{", "a", "}">>, <<"b">>}

\* The pieces one after the other.
RECURSIVE Concat(_)
Concat(ss) == IF ss = <<>> THEN <<>> ELSE Head(ss) \o Concat(Tail(ss))

\* Lexer::new on a source of strings, byte strings and templates
FlagInit ==
    \E ss \in SeqsUpTo(FlagPieces, MaxFlagLen) : LexerNew(Concat(ss), <<>>)

\* Bound of the sources of identifiers: their length.
MaxIdentLen == 4

\* Letters (those of the keyword `fn` among them), the underscore, a digit
\* and the space.
IdentChars == {"a", "f", "n", "A", "_", "1", " "}

\* Lexer::new on a source of identifiers and keywords
IdentInit ==
    \E src \in SeqsUpTo(IdentChars, MaxIdentLen) : LexerNew(src, <<>>)

\* Bound of the sources of comments: their length.
MaxCommentLen == 5

\* The slash, the newline, a letter, and the characters of templates and
\* holes.
CommentChars == {"/", "\n", "a", BackTick, "{", "}"}

\* Lexer::new on a source of comments, in and out of holes
CommentInit ==
    \E src \in SeqsUpTo(CommentChars, MaxCommentLen) : LexerNew(src, <<>>)

\* The lexer is not part of the run.
LexerIdle == LexerNew(<<>>, <<>>)

\* One call of Lexer::next
LexNext ==
    /\ LET r == LexerNext(pos, modes, buffer) IN
        /\ pos' = r.pos
        /\ modes' = r.modes
        /\ buffer' = r.buffer
        /\ lres' = r.res
        /\ ltok' = r.tok
        /\ lerr' = r.err
        /\ tokens' = IF r.res = "token" THEN Append(tokens, r.tok) ELSE tokens
    /\ UNCHANGED <<source, elems>>
    /\ UNCHANGED notLexerVars

(***************************************************************************)
(*                  THE SYNTAX TREE (crates/rune/src/ast)                  *)
(***************************************************************************)

\* The longest token stream handed to a parse function
MaxStream == 3

\* The longest Path::rest
MaxRest == 2

\* The kinds of the tokens of a stream: the parentheses, the two range
\* limits, the three unary operators and an identifier.
StreamKinds ==
    {"OpenParen", "CloseParen", "DotDot", "DotDotEq", "Bang", "Amp", "Star", "Ident"}

\* The tokens of a sequence of kinds, one character each
TokensOf(kinds) == [i \in 1..Len(kinds) |-> Tok(kinds[i], i - 1, i)]

\* The n-th token ahead, or Option::None
StreamAt(ss, n) == IF n <= Len(ss) THEN ss[n] ELSE NoToken

\* The peek! macro: `return false` when the token is None
PeekMissing(token) == token = NoToken

LitUnitPeekAny(t1, t2) == t1.kind = "OpenParen" /\ t2 /= NoToken

\* LitUnit::peek
LitUnitPeek(t1, t2) ==
    IF PeekMissing(t1) THEN FALSE
    ELSE IF PeekMissing(t2) THEN FALSE
    ELSE t1.kind = "OpenParen" /\ t2.kind = "CloseParen"

\* A Result without an error
NoParseError == [kind |-> "None"]

\* Ok(value)
ROk(value) == [ok |-> TRUE, value |-> value, err |-> NoParseError]

\* Err(err)
RErr(err) == [ok |-> FALSE, value |-> "None", err |-> err]

\* The Result of a function that takes the parser: with what the parser is
\* left to read
POk(value, rest) == [ok |-> TRUE, value |-> value, err |-> NoParseError, stream |-> rest]

PErr(err, rest) == [ok |-> FALSE, value |-> "None", err |-> err, stream |-> rest]

\* ParseError::expected(token, what)
ParseExpected(token, what) ==
    [kind |-> "Expected", actual |-> token.kind, expected |-> what,
     start |-> token.start, end |-> token.end]

\* The error of reading past the last token
UnexpectedEof == [kind |-> "UnexpectedEof"]

\* The token that stands for the end of the stream
EofToken == Tok("Eof", 0, 0)

\* Parser::nth(n): the kind of the n-th token ahead
ParserNth(ss, n) == IF n < Len(ss) THEN ss[n + 1].kind ELSE "Eof"

\* Parser::tok_at(n)
ParserTokAt(ss, n) == IF n < Len(ss) THEN ss[n + 1] ELSE EofToken

\* Parser::token_next
ParserTokenNext(ss) ==
    IF ss = <<>> THEN PErr(UnexpectedEof, ss) ELSE POk(Head(ss), Tail(ss))

ExprRangeLimitsSwapped(kind) ==
    CASE kind = "DotDot" -> "Closed"
      [] kind = "DotDotEq" -> "HalfOpen"
      [] OTHER -> "None"

\* ExprRangeLimits::parse, the arms of its match: the variant of a kind
ExprRangeLimitsOf(kind) ==
    CASE kind = "DotDot" -> "HalfOpen"
      [] kind = "DotDotEq" -> "Closed"
      [] OTHER -> "None"

\* ExprRangeLimits::parse
ExprRangeLimitsParse(ss) ==
    LET limits == ExprRangeLimitsOf(ParserNth(ss, 0)) IN
    IF limits /= "None"
    THEN POk([limits |-> limits, token |-> Head(ss)], Tail(ss))
    ELSE PErr(ParseExpected(ParserTokAt(ss, 0), "range limits"), ss)

\* The text `unary operator` followed by a quoted bang
UnaryOperatorText == <<"unary operator ", BackTick, "!", BackTick>>

UnaryOpFromTokenShifted(token) ==
    CASE token.kind = "Bang" -> ROk("BorrowRef")
      [] token.kind = "Amp" -> ROk("Deref")
      [] token.kind = "Star" -> ROk("Not")
      [] OTHER -> RErr(ParseExpected(token, UnaryOperatorText))

\* UnaryOp::from_token
UnaryOpFromToken(token) ==
    CASE token.kind = "Bang" -> ROk("Not")
      [] token.kind = "Amp" -> ROk("BorrowRef")
      [] token.kind = "Star" -> ROk("Deref")
      [] OTHER -> RErr(ParseExpected(token, UnaryOperatorText))

RECURSIVE ExprParseWith(_, _)
RECURSIVE ExprUnaryParseWithMeta(_, _, _)

\* ast::Expr::parse_with, on streams of unary operators, identifiers and
\* unit literals
ExprParseWith(ss, eager_brace) ==
    IF ss = <<>> THEN PErr(UnexpectedEof, ss)
    ELSE IF Head(ss).kind \in {"Bang", "Amp", "Star"}
    THEN ExprUnaryParseWithMeta(ss, <<>>, eager_brace)
    ELSE IF Head(ss).kind = "Ident"
    THEN POk([node |-> "Path", token |-> Head(ss)], Tail(ss))
    ELSE IF LitUnitPeek(StreamAt(ss, 1), StreamAt(ss, 2))
    THEN POk([node |-> "LitUnit", open |-> ss[1], close |-> ss[2]], Tail(Tail(ss)))
    ELSE PErr(ParseExpected(Head(ss), "expression"), ss)

\* ExprUnary::parse_with_meta
ExprUnaryParseWithMeta(ss, attributes, eager_brace) ==
    LET op_token == ParserTokenNext(ss) IN
    IF ~op_token.ok THEN op_token
    ELSE LET op == UnaryOpFromToken(op_token.value) IN
        IF ~op.ok THEN PErr(op.err, op_token.stream)
        ELSE LET operand == ExprParseWith(op_token.stream, eager_brace) IN
            IF ~operand.ok THEN operand
            ELSE POk([node |-> "ExprUnary", attributes |-> attributes,
                      op_token |-> op_token.value, expr |-> operand.value,
                      op |-> op.value],
                     operand.stream)

\* Option::None of an identifier or of a Scope
NoIdent == "None"

\* PathSegment: an identifier, or one of crate, super, self and Self
PathSegments ==
    {[kind |-> "Ident", ident |-> n] : n \in {"a", "b"}}
    \cup {[kind |-> k, ident |-> NoIdent] : k \in {"Crate", "Super", "SelfValue", "SelfType"}}

\* Option<Scope>
OptionScope == {"None", "Scope"}

\* ast::Path
Paths ==
    [leading_colon : OptionScope, first : PathSegments,
     rest : SeqsUpTo(PathSegments, MaxRest), trailing : OptionScope]

\* PathSegment::try_as_ident
PathSegmentTryAsIdent(segment) ==
    IF segment.kind = "Ident" THEN segment.ident ELSE NoIdent

\* PathSegment::try_as_ident_mut
PathSegmentTryAsIdentMut(segment) ==
    IF segment.kind = "Ident" THEN segment.ident ELSE NoIdent

PathTryAsIdentFirst(p) == PathSegmentTryAsIdent(p.first)

\* Path::try_as_ident
PathTryAsIdent(p) ==
    IF p.rest = <<>> /\ p.trailing = "None" /\ p.leading_colon = "None"
    THEN PathSegmentTryAsIdent(p.first)
    ELSE NoIdent

\* Path::try_as_ident_mut: what it returns and the path it leaves
PathTryAsIdentMut(p) ==
    [ret |-> IF p.rest = <<>> /\ p.trailing = "None" /\ p.leading_colon = "None"
             THEN PathSegmentTryAsIdentMut(p.first)
             ELSE NoIdent,
     path |-> p]

\* The path no function is applied to
IdlePath ==
    [leading_colon |-> "None", first |-> [kind |-> "Crate", ident |-> NoIdent],
     rest |-> <<>>, trailing |-> "None"]

\* No function of the syntax tree has been called.
NoCall ==
    /\ pcall = "None"
    /\ pargs = <<>>
    /\ pret = "None"
    /\ pbefore = [stream |-> stream, path |-> path]

\* A parser over a stream of tokens
StreamInit ==
    /\ \E kinds \in SeqsUpTo(StreamKinds, MaxStream) : stream = TokensOf(kinds)
    /\ path = IdlePath
    /\ NoCall

\* A parsed path
PathInit ==
    /\ stream = <<>>
    /\ path \in Paths
    /\ NoCall

\* The syntax tree is not part of the run.
ParserIdle ==
    /\ stream = <<>>
    /\ path = IdlePath
    /\ NoCall

\* LitUnit::peek on the two tokens ahead, each of which may be absent
PeekLitUnit ==
    /\ \E t1 \in {StreamAt(stream, 1), NoToken}, t2 \in {StreamAt(stream, 2), NoToken} :
        /\ pargs' = <<t1, t2>>
        /\ pret' = LitUnitPeek(t1, t2)
    /\ pcall' = "LitUnit::peek"
    /\ pbefore' = [stream |-> stream, path |-> path]
    /\ UNCHANGED <<stream, path>>
    /\ UNCHANGED notParserVars

\* ExprRangeLimits::parse on the parser
ParseRangeLimits ==
    /\ LET r == ExprRangeLimitsParse(stream) IN
        /\ pret' = r
        /\ stream' = r.stream
    /\ pcall' = "ExprRangeLimits::parse"
    /\ pargs' = <<>>
    /\ pbefore' = [stream |-> stream, path |-> path]
    /\ UNCHANGED path
    /\ UNCHANGED notParserVars

\* UnaryOp::from_token on a token of the stream
FromToken ==
    /\ \E i \in 1..Len(stream) :
        /\ pargs' = <<stream[i]>>
        /\ pret' = UnaryOpFromToken(stream[i])
    /\ pcall' = "UnaryOp::from_token"
    /\ pbefore' = [stream |-> stream, path |-> path]
    /\ UNCHANGED <<stream, path>>
    /\ UNCHANGED notParserVars

\* ExprUnary::parse_with_meta on the parser
ParseUnary ==
    /\ \E eager_brace \in BOOLEAN :
        LET r == ExprUnaryParseWithMeta(stream, <<>>, eager_brace) IN
        /\ pargs' = <<<<>>, eager_brace>>
        /\ pret' = r
        /\ stream' = r.stream
    /\ pcall' = "ExprUnary::parse_with_meta"
    /\ pbefore' = [stream |-> stream, path |-> path]
    /\ UNCHANGED path
    /\ UNCHANGED notParserVars

\* Path::try_as_ident on the path
TryAsIdent ==
    /\ pret' = PathTryAsIdent(path)
    /\ pcall' = "Path::try_as_ident"
    /\ pargs' = <<>>
    /\ pbefore' = [stream |-> stream, path |-> path]
    /\ UNCHANGED <<stream, path>>
    /\ UNCHANGED notParserVars

\* Path::try_as_ident_mut on the path
TryAsIdentMut ==
    /\ LET r == PathTryAsIdentMut(path) IN
        /\ pret' = r.ret
        /\ path' = r.path
    /\ pcall' = "Path::try_as_ident_mut"
    /\ pargs' = <<>>
    /\ pbefore' = [stream |-> stream, path |-> path]
    /\ UNCHANGED stream
    /\ UNCHANGED notParserVars

\* The kinds of the tokens a path segment is parsed from: those of the
\* segments, a separator and a parenthesis.
SegmentKinds ==
    {"Ident", "Crate", "Super", "Self_", "SelfType", "ColonColon", "OpenParen"}

\* Parser::token_peek_eof: the next token, which stays in the stream
ParserTokenPeekEof(ss) ==
    IF ss = <<>> THEN PErr(UnexpectedEof, ss) ELSE POk(Head(ss), ss)

\* PathSegment::parse
PathSegmentParse(ss) ==
    LET token == ParserTokenPeekEof(ss)
        segment(kind) ==
            CASE kind = "Ident" -> "Ident"
              [] kind = "Crate" -> "Crate"
              [] kind = "Super" -> "Super"
              [] kind = "Self_" -> "SelfValue"
              [] kind = "SelfType" -> "SelfType"
              [] OTHER -> "None"
    IN  IF ~token.ok THEN token
        ELSE IF segment(token.value.kind) /= "None"
        THEN POk([kind |-> segment(token.value.kind), token |-> Head(ss)], Tail(ss))
        ELSE PErr([kind |-> "TokenMismatch", expected |-> "Ident",
                   actual |-> token.value.kind,
                   start |-> token.value.start, end |-> token.value.end], ss)

\* PathSegment::peek
PathSegmentPeek(t1, t2) ==
    IF PeekMissing(t1) THEN FALSE
    ELSE t1.kind \in {"Ident", "Crate", "Super", "SelfType"}

\* A parser over a stream of the tokens of path segments
SegmentInit ==
    /\ \E kinds \in SeqsUpTo(SegmentKinds, MaxStream) : stream = TokensOf(kinds)
    /\ path = IdlePath
    /\ NoCall

\* PathSegment::parse on the parser
ParsePathSegment ==
    /\ LET r == PathSegmentParse(stream) IN
        /\ pret' = r
        /\ stream' = r.stream
    /\ pcall' = "PathSegment::parse"
    /\ pargs' = <<>>
    /\ pbefore' = [stream |-> stream, path |-> path]
    /\ UNCHANGED path
    /\ UNCHANGED notParserVars

\* PathSegment::peek on the two tokens ahead, the first of which may be absent
PeekPathSegment ==
    /\ \E t1 \in {StreamAt(stream, 1), NoToken} :
        /\ pargs' = <<t1, StreamAt(stream, 2)>>
        /\ pret' = PathSegmentPeek(t1, StreamAt(stream, 2))
    /\ pcall' = "PathSegment::peek"
    /\ pbefore' = [stream |-> stream, path |-> path]
    /\ UNCHANGED <<stream, path>>
    /\ UNCHANGED notParserVars

\* Bound of the streams of while loops: the number of their pieces.
MaxWhilePieces == 4

\* A label with its colon, the keyword, a condition, an empty block, a block
\* of one expression, and a label without its colon.
WhilePieces ==
    {<<"Label", "Colon">>, <<"While">>, <<"Ident">>, <<"OpenBrace", "CloseBrace">>,
     <<"OpenBrace", "Ident", "CloseBrace">>, <<"Label">>}

\* Span::join: from the lesser start to the greater end
SpanJoin(a, b) ==
    [start |-> IF a.start <= b.start THEN a.start ELSE b.start,
     end |-> IF a.end >= b.end THEN a.end ELSE b.end]

\* Option::None of a label
NoLabel == [label |-> NoToken, colon |-> NoToken]

\* ExprWhile::parse_with_label: the keyword, a condition of one identifier and
\* a block of identifiers
ExprWhileParseWithLabel(ss, label) ==
    LET expect(s, kind) ==
            IF s = <<>> THEN PErr(UnexpectedEof, s)
            ELSE IF Head(s).kind = kind THEN POk(Head(s), Tail(s))
            ELSE PErr(ParseExpected(Head(s), kind), s)
        while_ == expect(ss, "While")
        condition == expect(while_.stream, "Ident")
        open == expect(condition.stream, "OpenBrace")
        inner == IF open.stream /= <<>> /\ Head(open.stream).kind = "Ident"
                 THEN Tail(open.stream) ELSE open.stream
        close == expect(inner, "CloseBrace")
    IN  IF ~while_.ok THEN while_
        ELSE IF ~condition.ok THEN condition
        ELSE IF ~open.ok THEN open
        ELSE IF ~close.ok THEN close
        ELSE POk([label |-> label, while_ |-> while_.value,
                  condition |-> condition.value,
                  body |-> [open |-> open.value, close |-> close.value]],
                 close.stream)

\* ExprWhile::parse
ExprWhileParse(ss) ==
    IF ss /= <<>> /\ Head(ss).kind = "Label"
    THEN IF Len(ss) >= 2 /\ ss[2].kind = "Colon"
         THEN ExprWhileParseWithLabel(Tail(Tail(ss)), [label |-> ss[1], colon |-> ss[2]])
         ELSE PErr(ParseExpected(StreamAt(Tail(ss), 1), "Colon"), Tail(ss))
    ELSE ExprWhileParseWithLabel(ss, NoLabel)

ExprWhileSpanWithLabel(node) ==
    LET first == IF node.label = NoLabel THEN node.while_ ELSE node.label.label IN
    SpanJoin([start |-> first.start, end |-> first.end],
             [start |-> node.body.open.start, end |-> node.body.close.end])

\* <ExprWhile as Spanned>::span
ExprWhileSpan(node) ==
    LET span(token) == [start |-> token.start, end |-> token.end]
        body == SpanJoin(span(node.body.open), span(node.body.close))
    IN  SpanJoin(span(node.while_), body)

\* A parser over a stream of the pieces of while loops
WhileInit ==
    /\ \E pieces \in SeqsUpTo(WhilePieces, MaxWhilePieces) : stream = TokensOf(Concat(pieces))
    /\ path = IdlePath
    /\ NoCall

\* ExprWhile::parse on the parser
ParseWhile ==
    /\ LET r == ExprWhileParse(stream) IN
        /\ pret' = r
        /\ stream' = r.stream
    /\ pcall' = "ExprWhile::parse"
    /\ pargs' = <<>>
    /\ pbefore' = [stream |-> stream, path |-> path]
    /\ UNCHANGED path
    /\ UNCHANGED notParserVars

\* span() of the while loop that was parsed
SpanWhile ==
    /\ pcall = "ExprWhile::parse"
    /\ pret.ok
    /\ pcall' = "ExprWhile::span"
    /\ pargs' = <<pret.value>>
    /\ pret' = ExprWhileSpan(pret.value)
    /\ pbefore' = [stream |-> stream, path |-> path]
    /\ UNCHANGED <<stream, path>>
    /\ UNCHANGED notParserVars

RECURSIVE ExprToTokens(_)
\* ToTokens of an expression: of ExprUnary its attributes, its op_token and
\* its operand (op is skipped); of a path its identifier; of a unit literal
\* its two parentheses
ExprToTokens(e) ==
    CASE e.node = "ExprUnary" -> e.attributes \o <<e.op_token>> \o ExprToTokens(e.expr)
      [] e.node = "Path" -> <<e.token>>
      [] e.node = "LitUnit" -> <<e.open, e.close>>

ExprRangeLimitsToTokensNone(limits) == <<>>

\* ToTokens of ExprRangeLimits: the token of the variant
ExprRangeLimitsToTokens(limits) == <<limits.token>>

\* The unary expression that was parsed is rendered and its tokens are parsed
\* again.
RoundtripUnary ==
    /\ pcall = "ExprUnary::parse_with_meta"
    /\ pret.ok
    /\ LET rendered == ExprToTokens(pret.value) IN
        /\ pargs' = <<rendered, pret.value>>
        /\ pret' = ExprUnaryParseWithMeta(rendered, <<>>, pargs[2])
    /\ pcall' = "roundtrip::<ExprUnary>"
    /\ pbefore' = [stream |-> stream, path |-> path]
    /\ UNCHANGED <<stream, path>>
    /\ UNCHANGED notParserVars

\* The range limits that were parsed are rendered and their tokens are parsed
\* again.
RoundtripLimits ==
    /\ pcall = "ExprRangeLimits::parse"
    /\ pret.ok
    /\ LET rendered == ExprRangeLimitsToTokens(pret.value) IN
        /\ pargs' = <<rendered, pret.value>>
        /\ pret' = ExprRangeLimitsParse(rendered)
    /\ pcall' = "roundtrip::<ExprRangeLimits>"
    /\ pbefore' = [stream |-> stream, path |-> path]
    /\ UNCHANGED <<stream, path>>
    /\ UNCHANGED notParserVars

(***************************************************************************)
(*                            SPECIFICATIONS                               *)
(***************************************************************************)

\* The worker.
Init == WorkerInit /\ CompileIdle /\ LexerIdle /\ ParserIdle

Next == WorkerNext

Spec == Init /\ [][Next]_vars

\* run() is straight-line synchronous code: once entered, it keeps taking
\* its next step.
FairSpec == Spec /\ WF_vars(RunStep)

\* The compiler.
CompileSpecInit == CompileInit /\ WorkerInit /\ LexerIdle /\ ParserIdle

CompileSpecNext == CompileNext

CompileSpec == CompileSpecInit /\ [][CompileSpecNext]_vars

\* The lexer, on terminated template literals.
TemplateSpecInit == TemplateInit /\ WorkerInit /\ CompileIdle /\ ParserIdle

TemplateSpecNext == LexNext

TemplateSpec == TemplateSpecInit /\ [][TemplateSpecNext]_vars

\* The lexer, on sources of numbers.
NumberSpecInit == NumberInit /\ WorkerInit /\ CompileIdle /\ ParserIdle

NumberSpecNext == LexNext

NumberSpec == NumberSpecInit /\ [][NumberSpecNext]_vars

\* The lexer, on sources of operators.
OperatorSpecInit == OperatorInit /\ WorkerInit /\ CompileIdle /\ ParserIdle

OperatorSpecNext == LexNext

OperatorSpec == OperatorSpecInit /\ [][OperatorSpecNext]_vars

\* The lexer, on sources of quoted literals and labels.
QuoteSpecInit == QuoteInit /\ WorkerInit /\ CompileIdle /\ ParserIdle

QuoteSpecNext == LexNext

QuoteSpec == QuoteSpecInit /\ [][QuoteSpecNext]_vars

\* The lexer, on sources of strings, byte strings and templates.
FlagSpecInit == FlagInit /\ WorkerInit /\ CompileIdle /\ ParserIdle

FlagSpecNext == LexNext

FlagSpec == FlagSpecInit /\ [][FlagSpecNext]_vars

\* The lexer, on sources of identifiers.
IdentSpecInit == IdentInit /\ WorkerInit /\ CompileIdle /\ ParserIdle

IdentSpecNext == LexNext

IdentSpec == IdentSpecInit /\ [][IdentSpecNext]_vars

\* The lexer, on sources of comments.
CommentSpecInit == CommentInit /\ WorkerInit /\ CompileIdle /\ ParserIdle

CommentSpecNext == LexNext

CommentSpec == CommentSpecInit /\ [][CommentSpecNext]_vars

\* The lexer, on sources of templates, holes and braces.
ModeSpecInit == ModeInit /\ WorkerInit /\ CompileIdle /\ ParserIdle

ModeSpecNext == LexNext

ModeSpec == ModeSpecInit /\ [][ModeSpecNext]_vars

\* The syntax tree, on streams of tokens.
ParseSpecInit == StreamInit /\ WorkerInit /\ CompileIdle /\ LexerIdle

ParseSpecNext ==
    \/ PeekLitUnit
    \/ ParseRangeLimits
    \/ FromToken
    \/ ParseUnary
    \/ RoundtripUnary
    \/ RoundtripLimits

ParseSpec == ParseSpecInit /\ [][ParseSpecNext]_vars

\* The syntax tree, on paths.
PathSpecInit == PathInit /\ WorkerInit /\ CompileIdle /\ LexerIdle

PathSpecNext == TryAsIdent \/ TryAsIdentMut

PathSpec == PathSpecInit /\ [][PathSpecNext]_vars

\* The syntax tree, on streams of the tokens of path segments.
SegmentSpecInit == SegmentInit /\ WorkerInit /\ CompileIdle /\ LexerIdle

SegmentSpecNext == ParsePathSegment \/ PeekPathSegment

SegmentSpec == SegmentSpecInit /\ [][SegmentSpecNext]_vars

\* The syntax tree, on streams of while loops.
WhileSpecInit == WhileInit /\ WorkerInit /\ CompileIdle /\ LexerIdle

WhileSpecNext == ParseWhile \/ SpanWhile

WhileSpec == WhileSpecInit /\ [][WhileSpecNext]_vars

(***************************************************************************)
(*                        CLAIMS ABOUT THE WORKER                          *)
(***************************************************************************)
IsWildcard(t) == t.kind = "ExpandWildcardImport"

IsMissing(t) == t.kind = "LoadFile" /\ SourcesGet(t.source_id) = "none"

\* The wildcard imports in the order in which they were dequeued (deferred).
DeferredOrder == SelectSeq(dequeued, IsWildcard)

\* C1: no wildcard import is resolved while the task queue holds a task:
\* once the first wildcard import has been resolved (and whenever run() is in
\* its second loop) the queue is empty and every task that was ever enqueued,
\* those enqueued by other tasks included, has been dequeued and processed.
C1_WildcardsAfterDrain ==
    (wpc = "wildcards" \/ Len(resolved) > 0) =>
        /\ queue = <<>>
        /\ Range(enqueued) = Range(dequeued)
        /\ \A t \in Range(enqueued) : ~IsWildcard(t) => t \in Range(dequeued)

\* A wildcard import was dequeued while a load-file task was still queued
\* behind it, and it has been resolved.
C1_Witness ==
    /\ Len(resolved) > 0
    /\ \E i, j \in 1..Len(dequeued) :
        /\ i < j
        /\ IsWildcard(dequeued[i])
        /\ dequeued[j].kind = "LoadFile"

\* C2: the wildcard imports resolved so far are a prefix of the wildcard
\* imports in dequeue order, none is resolved before the queue has drained,
\* and when run() returns every dequeued wildcard import has been resolved,
\* once, in the order of deferral.
C2_WildcardsOnceInOrder ==
    /\ IsPrefix(resolved, DeferredOrder)
    /\ (Len(resolved) > 0 => wpc \in {"wildcards", "returned"} /\ queue = <<>>)
    /\ (wpc = "returned" => resolved = DeferredOrder)
    /\ \A i, j \in 1..Len(resolved) : resolved[i] = resolved[j] => i = j

\* run() returned after it resolved two wildcard imports.
C2_Witness ==
    /\ wpc = "returned"
    /\ Len(resolved) = 2
    /\ resolved[1].id < resolved[2].id

\* C3: tasks leave the queue in the order in which they entered it, each at
\* most once, and a task that left it is never on it again: the tasks ever
\* enqueued are the tasks dequeued so far followed by the queue. When run()
\* returns, every enqueued task has been dequeued exactly once.
C3_FifoOnce ==
    /\ enqueued = dequeued \o queue
    /\ \A i, j \in 1..Len(dequeued) : dequeued[i].id = dequeued[j].id => i = j
    /\ \A t \in Range(failed) : t \notin Range(queue)
    /\ (wpc = "returned" => dequeued = enqueued)

\* run() returned after a task failed and tasks enqueued by other tasks were
\* processed behind it.
C3_Witness ==
    /\ wpc = "returned"
    /\ Len(dequeued) = MaxTasks
    /\ \E i \in 1..Len(dequeued) - 1 : dequeued[i] \in Range(failed)
    /\ Len(indexed) > 0

\* C4: every failed task leaves exactly one error, carrying the task's
\* source id, and tasks that succeed leave none: the error sink lists the
\* source ids of the failed tasks in the order of failure. A failure stops
\* nothing: when run() returns every enqueued task was dequeued and every
\* deferred wildcard import resolved.
C4_OneErrorPerFailure ==
    /\ Len(errors) = Len(failed)
    /\ \A i \in 1..Len(errors) : errors[i].source_id = failed[i].source_id
    /\ (wpc = "returned" =>
            /\ dequeued = enqueued
            /\ resolved = wildcard_imports
            /\ resolved = DeferredOrder)

\* One malformed file and one well-formed file: run() returned with exactly
\* one error, that of the malformed file, and indexed the other.
C4_Witness ==
    /\ wpc = "returned"
    /\ Len(enqueued) = 2
    /\ enqueued[1].source_id = 1
    /\ enqueued[2].source_id = 0
    /\ Len(indexed) = 1
    /\ indexed[1] = enqueued[2]
    /\ Len(errors) = 1
    /\ errors[1].source_id = 1

\* C5: with finitely many tasks (MaxTasks), run() once entered returns; when
\* it has returned the queue is empty and every deferred wildcard import was
\* processed; and resolving a wildcard import leaves the queue as it was.
C5_RunTerminates ==
    /\ (wpc = "loop") ~> (wpc = "returned")
    /\ [](wpc = "returned" =>
            /\ queue = <<>>
            /\ wcursor = Len(wildcard_imports) + 1
            /\ resolved = wildcard_imports)
    /\ [][ProcessLocal => queue' = queue /\ enqueued' = enqueued]_vars

\* run() returned after it resolved a wildcard import, with every task the
\* bound allows created.
C5_Witness ==
    /\ wpc = "returned"
    /\ gen = MaxTasks
    /\ Len(resolved) > 0

\* C6 as stated: once a load-file task with a missing source was dequeued,
\* nothing is dequeued after it and no wildcard import is resolved.
C6_MissingSourceAborts ==
    \A i \in 1..Len(dequeued) :
        IsMissing(dequeued[i]) => i = Len(dequeued) /\ resolved = <<>>

\* C6, amended: a load-file task with a missing source leaves one internal
\* error carrying its source id, and the run goes on: the internal errors of
\* the sink are those of the missing-source tasks in dequeue order, and when
\* run() returns every enqueued task was dequeued and every deferred wildcard
\* import resolved.
C6_MissingSourceRecorded ==
    LET internal == SelectSeq(errors, LAMBDA e : e.kind = "internal")
        missing == SelectSeq(dequeued, IsMissing)
    IN  /\ Len(internal) = Len(missing)
        /\ \A i \in 1..Len(internal) : internal[i].source_id = missing[i].source_id
        /\ (wpc = "returned" => dequeued = enqueued /\ resolved = DeferredOrder)
        /\ wpc = "returned" => queue = <<>>

\* run() returned; a missing source was met, tasks were processed after it
\* and a wildcard import was resolved.
C6_Witness ==
    /\ wpc = "returned"
    /\ \E i \in 1..Len(dequeued) - 1 : IsMissing(dequeued[i])
    /\ Len(resolved) > 0

(***************************************************************************)
(*                       CLAIMS ABOUT THE COMPILER                         *)
(***************************************************************************)

\* What compiling a sub-expression on its own, with a value needed, emits,
\* and whether it fails.
Code(e) == CompileExpr(e, "Value", <<>>).asm

SubFails(e) == ~CompileExpr(e, "Value", <<>>).ok

\* What the call appended to the sink.
Emitted == SubSeq(asm, Len(asm0) + 1, Len(asm))

\* The effect of an instruction on the height of the stack: a literal and
\* Unit push one value, IndexSet pops three.
StackEffect(inst) == IF inst.op = "IndexSet" THEN -3 ELSE 1

RECURSIVE NetEffect(_)
NetEffect(code) ==
    IF code = <<>> THEN 0 ELSE StackEffect(Head(code)) + NetEffect(Tail(code))

\* C7: a successful compile of `target[index] = value` appends to the sink
\* the code of value, of index, of target (each as compiled with a value
\* needed, whatever the outer needs), then one IndexSet, then one Unit if and
\* only if the outer needs is Value, with nothing in between.
C7_EmitOrder ==
    cpc = "ok" =>
        asm = asm0 \o Code(cexpr.value) \o Code(cexpr.index) \o Code(cexpr.target)
                   \o <<InstIndexSet>>
                   \o (IF cneeds = "Value" THEN <<InstUnit>> ELSE <<>>)

\* A compile with no value needed succeeded on a non-empty sink; the value
\* is itself an index assignment and the target a literal.
C7_Witness ==
    /\ cpc = "ok"
    /\ cneeds = "None"
    /\ asm0 /= <<>>
    /\ cexpr.value.tag = "IndexSet"
    /\ cexpr.index.tag = "Lit"
    /\ cexpr.target.tag = "Lit"
    /\ Len(Emitted) = 8

\* C8: what a successful compile appended has net stack effect 0 when no
\* value is needed and +1 when one is.
C8_NetStackEffect ==
    cpc = "ok" => NetEffect(Emitted) = (IF cneeds = "Value" THEN 1 ELSE 0)

\* A compile with no value needed succeeded with an index assignment among
\* its sub-expressions.
C8_Witness ==
    /\ cpc = "ok"
    /\ cneeds = "None"
    /\ cexpr.target.tag = "IndexSet"
    /\ NetEffect(Emitted) = 0

\* C9 as stated: after a failed compile the sink is as it was before the
\* call.
C9_SinkRestoredOnFailure ==
    cpc = "err" => asm = asm0

\* C9, amended: when a sub-expression fails to compile, compile fails, no
\* IndexSet and no Unit is emitted for the node, and what was emitted before
\* the failure stays in the sink: the sink is what it was before the call,
\* then the code of the sub-expressions compiled before the failing one,
\* then whatever the failing one emitted.
C9_PartialCodeRemains ==
    LET v == cexpr.value
        i == cexpr.index
        t == cexpr.target
    IN  (cpc \in {"ok", "err"} /\ (SubFails(v) \/ SubFails(i) \/ SubFails(t))) =>
            /\ cpc = "err"
            /\ asm = asm0 \o (IF SubFails(v) THEN Code(v)
                              ELSE IF SubFails(i) THEN Code(v) \o Code(i)
                              ELSE Code(v) \o Code(i) \o Code(t))

\* A compile failed in its index after the code of its value was emitted.
C9_Witness ==
    /\ cpc = "err"
    /\ ~SubFails(cexpr.value)
    /\ SubFails(cexpr.index)
    /\ Len(asm) > Len(asm0)

(***************************************************************************)
(*                         CLAIMS ABOUT THE LEXER                          *)
(***************************************************************************)

\* A token as kind and span; the span of a comma is left out.
Shape(kind, start, end) ==
    IF kind = "Comma" THEN <<"Comma", 0, 0>> ELSE <<kind, start, end>>

TokenShapes == [i \in 1..Len(tokens) |-> Shape(tokens[i].kind, tokens[i].start, tokens[i].end)]

\* The tokens of one element whose text starts at offset `at`.
ElemShapes(e, at) ==
    IF e.kind = "lit"
    THEN <<Shape("LitStr", at, at + Len(e.text))>>
    ELSE [i \in 1..Len(e.toks) |->
            Shape(e.toks[i].kind, at + e.toks[i].at, at + e.toks[i].at + e.toks[i].len)]

\* The elements in source order, one comma between each two of them.
RECURSIVE JoinedShapes(_, _, _)
JoinedShapes(es, at, first) ==
    IF es = <<>> THEN <<>>
    ELSE (IF first THEN <<>> ELSE <<Shape("Comma", 0, 0)>>)
            \o ElemShapes(Head(es), at)
            \o JoinedShapes(Tail(es), at + Len(Head(es).text), FALSE)

\* Template, Open(Brace), the elements with their commas, Close(Brace).
ExpectedShapes ==
    <<Shape("Template", 0, 1), Shape("OpenBrace", 0, 1)>>
        \o JoinedShapes(elems, 1, TRUE)
        \o <<Shape("CloseBrace", Len(source) - 1, Len(source))>>

\* The segments of the template itself are unwrapped LitStr tokens.
SegmentsUnwrapped ==
    \A i \in 1..Len(tokens) : tokens[i].kind = "LitStr" => ~tokens[i].wrapped

EmptyHole(e) == e.kind = "hole" /\ e.toks = <<>>

\* A comma right after the opening brace (the third token) or right before
\* the closing brace (the last token) of the template.
CommaAfterOpen == Len(tokens) >= 3 /\ tokens[3].kind = "Comma"

CommaBeforeClose == Len(tokens) >= 3 /\ tokens[Len(tokens) - 1].kind = "Comma"

\* C10 as stated: the lexer returns no error on a terminated template, and
\* at its end has returned Template, Open(Brace), the elements in source
\* order with one Comma between each two, Close(Brace), with no Comma right
\* after the Open(Brace) and none right before the Close(Brace).
C10_TemplateTokens ==
    /\ lres /= "error"
    /\ (lres = "eof" =>
            /\ TokenShapes = ExpectedShapes
            /\ SegmentsUnwrapped
            /\ ~CommaAfterOpen
            /\ ~CommaBeforeClose)

\* C10, amended: as stated, but a hole that holds no token is an element
\* with no tokens, which still takes its commas: a Comma directly follows the
\* Open(Brace) exactly when the first of several elements is such a hole, and
\* directly precedes the Close(Brace) exactly when the last of several is.
C10_TemplateTokensEmptyHoles ==
    /\ lres /= "error"
    /\ (lres = "eof" =>
            /\ TokenShapes = ExpectedShapes
            /\ SegmentsUnwrapped
            /\ (CommaAfterOpen <=> Len(elems) >= 2 /\ EmptyHole(elems[1]))
            /\ (CommaBeforeClose <=> Len(elems) >= 2 /\ EmptyHole(elems[Len(elems)])))

\* A template of a segment, a hole with tokens and a segment was lexed to its
\* end, with its two commas.
C10_Witness ==
    /\ lres = "eof"
    /\ Len(elems) = 3
    /\ elems[1].kind = "lit"
    /\ elems[2].kind = "hole"
    /\ elems[2].toks /= <<>>
    /\ elems[3].kind = "lit"
    /\ Cardinality({i \in 1..Len(tokens) : tokens[i].kind = "Comma"}) = 2

\* What the next call of Lexer::next returns in the current state.
NextCall == LexerNext(pos, modes, buffer)

\* The input has ended with a template or a hole still open.
EndsInside == pos = Len(source) /\ buffer = <<>> /\ modes /= <<>>

\* C11: when the input ends inside a template or a hole, at any depth, the
\* call of Lexer::next returns an error; a call returns end-of-input only
\* with the mode stack empty, before the call and after it.
C11_EndInsideIsError ==
    /\ (EndsInside => NextCall.res = "error")
    /\ (NextCall.res = "eof" => modes = <<>>)
    /\ (lres = "eof" => modes = <<>> /\ pos = Len(source))

\* The input ended in a hole of a template that is itself in a hole of a
\* template: the call returned the error of the mode that was popped.
C11_Witness ==
    /\ lres = "error"
    /\ lerr.kind = "BadLexerMode"
    /\ pos = Len(source)
    /\ Len(modes) >= 3

\* The frames of a mode stack are well nested.
WellNested(ms) ==
    \A i \in 1..Len(ms) :
        /\ ms[i] /= ModeDefault(0)
        /\ (ms[i].kind = "Default" /\ ms[i].n = 1
                => i > 1 /\ ms[i - 1].kind = "Template")
        /\ (ms[i].kind = "Default" /\ ms[i].n > 1
                => i > 1 /\ ms[i - 1] = ModeDefault(ms[i].n - 1))
        /\ (ms[i].kind = "Template"
                => i = 1 \/ (ms[i - 1].kind = "Default" /\ ms[i - 1].n >= 1))

\* Two stacks with the same frames, but for the expression count of the top.
SameButTopCount(a, b) ==
    /\ Len(a) = Len(b)
    /\ \A i \in 1..Len(a) :
        IF i < Len(a) THEN a[i] = b[i] ELSE a[i].kind = b[i].kind

\* The lexer is about to read the character c of the source.
AtChar(c) == buffer = <<>> /\ Peek(pos) = c

\* In a template, the text from the cursor on is a segment followed by `{`.
AtHole ==
    /\ buffer = <<>>
    /\ ModesLast(modes).kind = "Template"
    /\ \E q \in pos..Len(source) - 1 :
        /\ source[q + 1] = "{"
        /\ \A k \in pos + 1..q : source[k] \notin {"{", "}", "\\", BackTick}

\* A `{` read in Default(n >= 1) pushes Default(n + 1).
BracePushes ==
    LET top == ModesLast(modes) IN
    (AtChar("{") /\ top.kind = "Default" /\ top.n >= 1) =>
        DefaultToken("{", pos, pos + 1, top.n, modes, buffer).modes
            = Append(modes, ModeDefault(top.n + 1))

\* The `{` of a hole, read in a Template frame, pushes Default(1).
HolePushes ==
    AtHole =>
        LET r == TemplateNext(pos, modes, buffer) IN
        /\ r.res = "continue"
        /\ Len(r.modes) = Len(modes) + 1
        /\ r.modes[Len(r.modes)] = ModeDefault(1)
        /\ SameButTopCount(SubSeq(r.modes, 1, Len(modes)), modes)

\* A `}` read in Default(n >= 1) pops that frame and no other, without error.
BracePops ==
    LET top == ModesLast(modes) IN
    (AtChar("}") /\ top.kind = "Default" /\ top.n >= 1) =>
        LET r == DefaultToken("}", pos, pos + 1, top.n, modes, buffer) IN
        /\ r.res /= "error"
        /\ modes[Len(modes)] = ModeDefault(top.n)
        /\ SameButTopCount(r.modes, ModesRest(modes))

\* C12: after any sequence of calls the mode stack is well nested, a `{` in
\* Default(n >= 1) pushes Default(n + 1), the `{` of a hole pushes Default(1)
\* on its Template frame, and a `}` pops exactly the frame on top.
C12_ModesWellNested ==
    /\ WellNested(modes)
    /\ BracePushes
    /\ HolePushes
    /\ BracePops

\* A hole was opened, a brace opened and closed in it, and the hole closed:
\* the frames pushed are gone and the template counts one expression.
C12_Witness ==
    /\ modes = <<ModeTemplate(1)>>
    /\ \E i \in 1..Len(tokens) : tokens[i].kind = "CloseBrace" /\ tokens[i].start = 3

\* The tokens returned so far that are numbers.
NumberTokens == {i \in 1..Len(tokens) : tokens[i].kind = "LitNumber"}

\* The positions of the dots in the text of a token.
DotsIn(t) == {k \in t.start + 1..t.end : source[k] = "."}

\* C13 as stated: a dot that no digit follows ends the number and is not
\* consumed, so every dot in a number token is followed by a digit, a number
\* is fractional only if it holds such a dot, `10.a` is the integer 10, a Dot
\* and an identifier, and `0..1` is the integer 0, a DotDot and the integer 1.
C13_DotNotConsumed ==
    /\ \A i \in NumberTokens :
        /\ \A k \in DotsIn(tokens[i]) : k < Len(source) /\ IsNumeric(source[k + 1])
        /\ (tokens[i].is_fractional <=> DotsIn(tokens[i]) /= {})
    /\ (source = <<"1", "0", ".", "a">> /\ lres = "eof" =>
            tokens = <<TokNumber(0, 2, FALSE, "Decimal"), Tok("Dot", 2, 3),
                       Tok("Ident", 3, 4)>>)
    /\ (source = <<"0", ".", ".", "1">> /\ lres = "eof" =>
            tokens = <<TokNumber(0, 1, FALSE, "Decimal"), Tok("DotDot", 1, 3),
                       TokNumber(3, 4, FALSE, "Decimal")>>)

\* `10.a` was lexed to its end.
C13_Witness ==
    /\ source = <<"1", "0", ".", "a">>
    /\ lres = "eof"

Operator(text, kind) == [text |-> text, kind |-> kind]

Operators ==
    { Operator(<<"+", "=">>, "PlusEq"), Operator(<<"-", "=">>, "DashEq"),
      Operator(<<"*", "=">>, "StarEq"), Operator(<<"/", "=">>, "SlashEq"),
      Operator(<<"%", "=">>, "PercEq"), Operator(<<"&", "=">>, "AmpEq"),
      Operator(<<"^", "=">>, "CaretEq"), Operator(<<"|", "=">>, "PipeEq"),
      Operator(<<"<", "=">>, "LtEq"), Operator(<<">", "=">>, "GtEq"),
      Operator(<<"=", "=">>, "EqEq"), Operator(<<"!", "=">>, "BangEq"),
      Operator(<<"&", "&">>, "AmpAmp"), Operator(<<"|", "|">>, "PipePipe"),
      Operator(<<"<", "<">>, "LtLt"), Operator(<<">", ">">>, "GtGt"),
      Operator(<<"<", "<", "=">>, "LtLtEq"), Operator(<<">", ">", "=">>, "GtGtEq"),
      Operator(<<".", ".">>, "DotDot"), Operator(<<"=", ">">>, "Rocket"),
      Operator(<<"-", ">">>, "Arrow") }

\* The kinds of the operators of one character.
SingleOperatorKinds ==
    {"Plus", "Dash", "Star", "Div", "Perc", "Amp", "Caret", "Pipe", "Lt", "Gt",
     "Eq", "Bang", "Dot"}

\* The operator's characters are in the source from position p on.
OperatorAt(op, p) ==
    /\ p + Len(op.text) <= Len(source)
    /\ SubSeq(source, p + 1, p + Len(op.text)) = op.text

\* The longest operator of the table that starts at position p, if any.
LongestAt(p) ==
    {op \in Operators :
        /\ OperatorAt(op, p)
        /\ \A other \in Operators : OperatorAt(other, p) => Len(other.text) <= Len(op.text)}

\* The lexer is in default mode at the start of a token.
AtTokenStart ==
    /\ buffer = <<>>
    /\ ModesLast(modes).kind = "Default"
    /\ Peek(pos) /= NoChar
    /\ ~IsWhitespace(Peek(pos))

\* C15: where the characters of an operator of the merge table start a
\* token, the call returns the longest such operator as one token spanning
\* exactly its characters; every operator token returned spans exactly the
\* characters of its operator, so none is merged across whitespace.
C15_LongestOperator ==
    /\ \A op \in LongestAt(pos) :
        AtTokenStart =>
            /\ NextCall.res = "token"
            /\ NextCall.tok = Tok(op.kind, pos, pos + Len(op.text))
    /\ \A i \in 1..Len(tokens) :
        /\ \A op \in Operators :
            tokens[i].kind = op.kind =>
                SubSeq(source, tokens[i].start + 1, tokens[i].end) = op.text
        /\ (tokens[i].kind \in SingleOperatorKinds =>
                tokens[i].end = tokens[i].start + 1)

\* `<<=` was lexed to its end as one token.
C15_Witness ==
    /\ lres = "eof"
    /\ source = <<"<", "<", "=">>
    /\ tokens = <<Tok("LtLtEq", 0, 3)>>

\* The label alphabet.
LabelChars == LowerChars \cup DigitChars

\* The lexer is in default mode at a `'` that starts a token.
AtQuote == AtTokenStart /\ Peek(pos) = "'"

\* The n characters after the quote at the cursor are label characters, and
\* a character follows them.
LabelThenChar(n) ==
    /\ AtQuote
    /\ pos + n + 2 <= Len(source)
    /\ \A k \in pos + 2..pos + n + 1 : source[k] \in LabelChars

\* The character that follows the quote at the cursor and n more characters.
CharAfter(n) == source[pos + n + 2]

\* A character that is no label character, no quote, no backslash and no
\* control character.
EndsLabel(c) == c \notin LabelChars \cup {"'", "\\"} /\ ~IsControl(c)

\* The call returns a Label of the quote and n characters, and leaves the
\* cursor on the character after them.
ReturnsLabel(n) ==
    /\ NextCall.res = "token"
    /\ NextCall.tok = Tok("Label", pos, pos + n + 1)
    /\ NextCall.pos = pos + n + 1

\* C16: a `'`, one or more characters of [a-z0-9] and then a character that
\* is no quote, no backslash and no control character is a Label spanning
\* the quote and the label characters, the cursor left on the terminating
\* character; test_label's source gives Label [0,5), LitChar [6,9), LitStr
\* [10,19).
C16_LabelBeforeOtherChar ==
    /\ \A n \in 1..Len(source) :
        LabelThenChar(n) /\ EndsLabel(CharAfter(n)) => ReturnsLabel(n)
    /\ (source = TestLabelSource /\ lres = "eof" =>
            tokens = <<Tok("Label", 0, 5), Tok("LitChar", 6, 9),
                       TokStr("LitStr", 10, 19, FALSE, TRUE)>>)

\* The source of test_label was lexed to its end, in three tokens.
C16_Witness ==
    /\ source = TestLabelSource
    /\ lres = "eof"
    /\ Len(tokens) = 3
    /\ tokens[1].kind = "Label"

\* The call returns no Label: an error, or a character literal closed by a
\* quote.
ReturnsClosedChar ==
    /\ NextCall.res \in {"token", "error"}
    /\ (NextCall.res = "token" =>
            /\ NextCall.tok.kind = "LitChar"
            /\ NextCall.tok.end >= NextCall.tok.start + 2
            /\ source[NextCall.tok.end] = "'")

LabelToTheEnd ==
    /\ AtQuote
    /\ \A k \in pos + 2..Len(source) : source[k] \in LabelChars

\* The call returns the error of a label that the input ended in.
ReturnsExpectedCharClose ==
    /\ NextCall.res = "error"
    /\ NextCall.err = Err("ExpectedCharClose", pos, Len(source))

\* C18 as stated: when the input ends while the scan is still a label the
\* call returns an error and no Label; a label is never the last token of an
\* input.
C18_LabelNeverLast ==
    /\ (LabelToTheEnd => ReturnsExpectedCharClose)
    /\ (lres = "eof" /\ tokens /= <<>> => tokens[Len(tokens)].kind /= "Label")

\* C18, amended: when the input ends while the scan is still a label the
\* call returns an error and no Label; a Label token never ends at the end of
\* the input (it can be the last token when only whitespace follows it).
C18_LabelNeverAtEnd ==
    /\ (LabelToTheEnd => ReturnsExpectedCharClose)
    /\ \A i \in 1..Len(tokens) :
        tokens[i].kind = "Label" => tokens[i].end < Len(source)

\* The input ended in a label of two characters: the call returned the error
\* and no token.
C18_Witness ==
    /\ source = <<"'", "a", "b">>
    /\ lres = "error"
    /\ lerr = Err("ExpectedCharClose", 0, 3)
    /\ tokens = <<>>

\* The token ends in the delimiter, which is not the one that opens it.
ClosedBy(t, delimiter, opening) ==
    /\ t.end >= t.start + opening + 1
    /\ source[t.end] = delimiter

\* The number of tokens of a kind returned so far.
CountKind(kind) == Cardinality({i \in 1..Len(tokens) : tokens[i].kind = kind})

\* The source holds the character from position p on.
Follows(c, p) == \E k \in p + 1..Len(source) : source[k] = c

\* C19: a literal whose closing delimiter is missing is an error: every
\* char, byte, string and byte-string token returned ends in its closing
\* delimiter, a string or byte string that no `"` closes is an error, and the
\* end of the input is returned only with every template closed.
C19_UnterminatedIsError ==
    /\ \A i \in 1..Len(tokens) :
        /\ (tokens[i].kind = "LitChar" => ClosedBy(tokens[i], "'", 1))
        /\ (tokens[i].kind = "LitByte" => ClosedBy(tokens[i], "'", 2))
        /\ (tokens[i].kind = "LitStr" /\ tokens[i].wrapped => ClosedBy(tokens[i], "\"", 1))
        /\ (tokens[i].kind = "LitByteStr" => ClosedBy(tokens[i], "\"", 2))
    /\ (AtTokenStart /\ Peek(pos) = "\"" /\ ~Follows("\"", pos + 1)
            => NextCall.res = "error")
    /\ (lres = "eof" => CountKind("Template") = CountKind("CloseBrace"))

\* A quote and an upper-case letter, then the end of the input: lexed to the
\* end as a character literal.
C19_Witness ==
    /\ source = <<"'", "A">>
    /\ lres = "eof"
    /\ tokens = <<Tok("LitChar", 0, 2)>>

\* C20: a control character anywhere inside a byte literal or a byte string
\* is an error: no LitByte or LitByteStr token returned holds one.
C20_ControlRejected ==
    \A i \in 1..Len(tokens) :
        tokens[i].kind \in {"LitByte", "LitByteStr"} =>
            \A k \in tokens[i].start + 1..tokens[i].end : ~IsControl(source[k])

\* A byte literal of a newline was lexed to the end as a LitByte token.
C20_Witness ==
    /\ source = <<"b", "'", "\n", "'">>
    /\ lres = "eof"
    /\ tokens = <<Tok("LitByte", 0, 4)>>

\* The number of backslashes in a row that end right before index k of the
\* source, none counted below index lo.
RECURSIVE BackslashesBefore(_, _)
BackslashesBefore(k, lo) ==
    IF k - 1 >= lo /\ source[k - 1] = "\\"
    THEN 1 + BackslashesBefore(k - 1, lo)
    ELSE 0

\* The character at index k is escaped by a backslash.
EscapedAt(k, lo) == BackslashesBefore(k, lo) % 2 = 1

\* The token, whose opening delimiter takes `opening` characters, runs to
\* the first delimiter that no backslash escapes.
EndsAtUnescaped(t, delimiter, opening) ==
    LET lo == t.start + opening + 1 IN
    /\ (source[t.end] = delimiter => ~EscapedAt(t.end, lo))
    /\ \A k \in lo..t.end - 1 : source[k] = delimiter => EscapedAt(k, lo)

\* C21: in char, byte, string and byte-string literals a backslash consumes
\* the character after it, so the token runs to the first closing delimiter
\* that is not escaped; the char literal and the string that hold one escaped
\* delimiter are each one token over the whole text.
C21_EscapedDelimiterKept ==
    /\ \A i \in 1..Len(tokens) :
        /\ (tokens[i].kind = "LitChar" => EndsAtUnescaped(tokens[i], "'", 1))
        /\ (tokens[i].kind = "LitByte" => EndsAtUnescaped(tokens[i], "'", 2))
        /\ (tokens[i].kind = "LitStr" /\ tokens[i].wrapped
                => EndsAtUnescaped(tokens[i], "\"", 1))
        /\ (tokens[i].kind = "LitByteStr" => EndsAtUnescaped(tokens[i], "\"", 2))
    /\ (source \in {<<"'", "\\", "'", "'">>, <<"\"", "\\", "\"", "\"">>} =>
            /\ lres /= "error"
            /\ (tokens /= <<>> => tokens[1].start = 0 /\ tokens[1].end = 4))

\* The string of one escaped quote was lexed as a string that ends in the
\* escaped quote, and the call after it returned an error.
C21_Witness ==
    /\ source = <<"\"", "\\", "\"", "\"">>
    /\ tokens = <<TokStr("LitStr", 0, 3, TRUE, TRUE)>>
    /\ lres = "error"

\* The kinds of the string tokens.
StringKinds == {"LitStr", "LitByteStr"}

\* The text of the token holds a backslash.
HoldsBackslash(t) == \E k \in t.start + 1..t.end : source[k] = "\\"

\* The next call returns a string token.
NextIsString == NextCall.res = "token" /\ NextCall.tok.kind \in StringKinds

\* C22: a string token is escaped exactly if its own text holds a backslash,
\* so the flag of one template segment never reaches a later one; a string
\* token lexed in default mode, from a `"` or a `b"`, is wrapped, and one
\* lexed in template mode or taken from the buffer is a LitStr that is not.
C22_StringFlags ==
    /\ \A i \in 1..Len(tokens) :
        tokens[i].kind \in StringKinds =>
            /\ (tokens[i].escaped <=> HoldsBackslash(tokens[i]))
            /\ (tokens[i].kind = "LitByteStr" => tokens[i].wrapped)
    /\ (AtTokenStart /\ NextIsString =>
            /\ NextCall.tok.wrapped
            /\ Peek(pos) = (IF NextCall.tok.kind = "LitStr" THEN "\"" ELSE "b"))
    /\ ((buffer /= <<>> \/ ModesLast(modes).kind = "Template") /\ NextIsString =>
            /\ NextCall.tok.kind = "LitStr"
            /\ ~NextCall.tok.wrapped)

\* A template of an escaped segment, a hole and a segment with no escape was
\* lexed to its end: the first segment is escaped and the second is not.
C22_Witness ==
    /\ source = <<BackTick, "\\", "a", "{", "a", "}", "a", BackTick>>
    /\ lres = "eof"
    /\ \E i, j \in 1..Len(tokens) :
        /\ i < j
        /\ tokens[i] = TokStr("LitStr", 1, 3, TRUE, FALSE)
        /\ tokens[j] = TokStr("LitStr", 6, 7, FALSE, FALSE)

\* [A-Za-z_] and [A-Za-z0-9_]
IdentStartChars == LowerChars \cup UpperChars \cup {"_"}

IdentBodyChars == IdentStartChars \cup DigitChars

\* The end of the longest run of identifier characters from position p on.
RECURSIVE RunEnd(_)
RunEnd(p) == IF Peek(p) \in IdentBodyChars THEN RunEnd(p + 1) ELSE p

\* The kind of an identifier token with the given text; a lone underscore
\* has its own kind.
IdentKind(text) ==
    IF text \in Keywords THEN FromKeyword(text)
    ELSE IF text = <<"_">> THEN "Underscore"
    ELSE "Ident"

\* C23: where a token starts with a character of [A-Za-z_] the call returns
\* one token over the longest run of [A-Za-z0-9_], so also over a run that
\* starts with `_`; its kind is the keyword's if the text is a keyword and
\* Ident otherwise.
C23_IdentMaximalRun ==
    (AtTokenStart /\ Peek(pos) \in IdentStartChars) =>
        /\ NextCall.res = "token"
        /\ NextCall.tok =
            Tok(IdentKind(SubSeq(source, pos + 1, RunEnd(pos))), pos, RunEnd(pos))
        /\ (SubSeq(source, pos + 1, RunEnd(pos)) \in Keywords
                => NextCall.tok.kind /= "Ident")

\* An underscore and a letter were lexed to the end as two tokens.
C23_Witness ==
    /\ source = <<"_", "a">>
    /\ lres = "eof"
    /\ tokens = <<Tok("Underscore", 0, 1), Tok("Ident", 1, 2)>>

\* The lexer is in default mode at a `//` that starts a token.
AtComment == AtTokenStart /\ Peek(pos) = "/" /\ Peek(pos + 1) = "/"

\* The positions after the newlines that follow position p.
AfterNewlines(p) == {k \in p + 1..Len(source) : source[k] = "\n"}

\* The position after the first newline that follows position p, or the end
\* of the input.
CommentEnd(p) ==
    IF AfterNewlines(p) = {} THEN Len(source)
    ELSE CHOOSE k \in AfterNewlines(p) : \A j \in AfterNewlines(p) : k <= j

\* C24: in default mode a `//` is consumed with every character up to and
\* including the next newline, or to the end of the input; no token is
\* emitted for it and the modes and the buffer stay as they are, and the call
\* goes on as a call started after the newline.
C24_LineComment ==
    AtComment =>
        /\ DefaultToken("/", pos, pos + 1, ModesLast(modes).n, modes, buffer)
            = RetContinue(CommentEnd(pos), modes, buffer)
        /\ NextCall = LexerNext(CommentEnd(pos), modes, buffer)
        /\ (NextCall.res = "token" => NextCall.tok.start >= CommentEnd(pos))

\* A comment that holds a letter, and a letter on the next line, were lexed
\* to the end: the one token is the letter after the newline.
C24_Witness ==
    /\ source = <<"/", "/", "a", "\n", "a">>
    /\ lres = "eof"
    /\ tokens = <<Tok("Ident", 4, 5)>>

\* As many Open(Brace) tokens as Close(Brace) tokens were returned.
BracesBalanced == CountKind("OpenBrace") = CountKind("CloseBrace")

\* In a template, the text from the cursor on is a segment followed by `}`.
AtStrayCloseInTemplate ==
    /\ buffer = <<>>
    /\ ModesLast(modes).kind = "Template"
    /\ \E q \in pos..Len(source) - 1 :
        /\ source[q + 1] = "}"
        /\ \A k \in pos + 1..q : source[k] \notin {"{", "}", "\\", BackTick}

\* In templates and holes an unbalanced brace is an error.
UnbalancedInsideIsError ==
    /\ (AtStrayCloseInTemplate =>
            /\ NextCall.res = "error"
            /\ NextCall.err.kind = "UnexpectedCloseBrace")
    /\ (EndsInside => NextCall.res = "error" /\ NextCall.err.kind /= "None")

\* C25 as stated: in every mode a `}` with no open `{` before it, and a `{`
\* still open at the end of the input, make the call return an error: no
\* Close(Brace) is returned with the braces balanced, and the end of the
\* input is returned only with the braces balanced.
C25_UnbalancedIsError ==
    /\ UnbalancedInsideIsError
    /\ (AtChar("}") /\ modes = <<>> /\ BracesBalanced => NextCall.res = "error")
    /\ (lres = "eof" => BracesBalanced)

\* C25, amended: an unbalanced brace is an error in template mode and in
\* the holes of a template; outside templates, in Default(0), `{` and `}`
\* are returned as Open(Brace) and Close(Brace) unchecked, and the modes stay
\* empty.
C25_UnbalancedInsideIsError ==
    /\ UnbalancedInsideIsError
    /\ (AtChar("}") /\ modes = <<>> =>
            NextCall = RetToken(pos + 1, <<>>, <<>>, Tok("CloseBrace", pos, pos + 1)))
    /\ (AtChar("{") /\ modes = <<>> =>
            NextCall = RetToken(pos + 1, <<>>, <<>>, Tok("OpenBrace", pos, pos + 1)))

\* A lone `}` was lexed to the end of the input as a Close(Brace).
C25_Witness ==
    /\ source = <<"}">>
    /\ lres = "eof"
    /\ tokens = <<Tok("CloseBrace", 0, 1)>>

(***************************************************************************)
(*                     CLAIMS ABOUT THE SYNTAX TREE                        *)
(***************************************************************************)

\* The last call was LitUnit::peek.
PeekCalled == pcall = "LitUnit::peek"

\* C26: LitUnit::peek(t1, t2) returns true exactly when both tokens are
\* present, t1 is an open parenthesis and t2 is a close parenthesis; it
\* returns false when either token is absent; it consumes nothing.
C26_LitUnitPeek ==
    PeekCalled =>
        /\ pret = (/\ pargs[1] /= NoToken
                   /\ pargs[2] /= NoToken
                   /\ pargs[1].kind = "OpenParen"
                   /\ pargs[2].kind = "CloseParen")
        /\ (pargs[1] = NoToken \/ pargs[2] = NoToken => pret = FALSE)
        /\ stream = pbefore.stream

\* LitUnit::peek saw `()` ahead of a third token and said so.
C26_Witness ==
    /\ PeekCalled
    /\ pargs = <<Tok("OpenParen", 0, 1), Tok("CloseParen", 1, 2)>>
    /\ pret = TRUE
    /\ Len(stream) = 3

\* The last call was ExprRangeLimits::parse.
LimitsCalled == pcall = "ExprRangeLimits::parse"

\* The kind of the token the parser stood at when the last call was made.
KindBefore ==
    IF pbefore.stream = <<>> THEN "Eof" ELSE Head(pbefore.stream).kind

\* C27: ExprRangeLimits::parse returns HalfOpen when the next token is `..`
\* and Closed when it is `..=`, taking that token; on any other next token
\* it fails with an error that expected range limits.
C27_RangeLimits ==
    LimitsCalled =>
        /\ KindBefore = "DotDot" =>
            /\ pret.ok
            /\ pret.value = [limits |-> "HalfOpen", token |-> Head(pbefore.stream)]
            /\ stream = Tail(pbefore.stream)
        /\ KindBefore = "DotDotEq" =>
            /\ pret.ok
            /\ pret.value = [limits |-> "Closed", token |-> Head(pbefore.stream)]
            /\ stream = Tail(pbefore.stream)
        /\ KindBefore \notin {"DotDot", "DotDotEq"} =>
            /\ ~pret.ok
            /\ pret.err.kind = "Expected"
            /\ pret.err.expected = "range limits"

\* ExprRangeLimits::parse took a `..=` that was followed by two tokens.
C27_Witness ==
    /\ LimitsCalled
    /\ KindBefore = "DotDotEq"
    /\ pret.ok
    /\ pret.value.limits = "Closed"
    /\ Len(stream) = 2

\* The source has the characters `..=` from position p on.
ClosedRangeAt(p) ==
    /\ p + 3 <= Len(source)
    /\ SubSeq(source, p + 1, p + 3) = <<".", ".", "=">>

\* C28: where the characters `..=` start a token, Lexer::next returns one
\* token of the closed-range kind that covers the three of them, and the
\* tokens of the source `..=` parse as Closed range limits.
C28_ClosedRangeToken ==
    /\ AtTokenStart /\ ClosedRangeAt(pos) =>
        /\ NextCall.res = "token"
        /\ NextCall.tok = Tok("DotDotEq", pos, pos + 3)
    /\ lres = "eof" /\ source = <<".", ".", "=">> =>
        /\ ExprRangeLimitsParse(tokens).ok
        /\ ExprRangeLimitsParse(tokens).value.limits = "Closed"

\* The source `..=` was lexed to its end: a `..` and a `=`, which parse as
\* half-open limits with the `=` left over.
C28_Witness ==
    /\ lres = "eof"
    /\ source = <<".", ".", "=">>
    /\ tokens = <<Tok("DotDot", 0, 2), Tok("Eq", 2, 3)>>
    /\ ExprRangeLimitsParse(tokens).value.limits = "HalfOpen"
    /\ ExprRangeLimitsParse(tokens).stream = <<Tok("Eq", 2, 3)>>

\* The operator the statement gives a token.
OpOf(token) ==
    CASE token.kind = "Bang" -> "Not"
      [] token.kind = "Amp" -> "BorrowRef"
      [] token.kind = "Star" -> "Deref"
      [] OTHER -> "None"

RECURSIVE OpsAgree(_)
\* In a parsed expression, every unary expression stores the operator of its
\* operator token.
OpsAgree(e) ==
    e.node = "ExprUnary" => e.op = OpOf(e.op_token) /\ e.op /= "None" /\ OpsAgree(e.expr)

\* C29: UnaryOp::from_token maps `!` to Not, `&` to BorrowRef and `*` to
\* Deref, and returns an error that expected a unary operator for a token of
\* any other kind; in every ExprUnary that parse_with_meta returns, the stored
\* op is the operator of the stored op_token, which is the token the parser
\* stood at.
C29_UnaryOp ==
    /\ pcall = "UnaryOp::from_token" =>
        IF OpOf(pargs[1]) /= "None"
        THEN pret = ROk(OpOf(pargs[1]))
        ELSE /\ ~pret.ok
             /\ pret.err.kind = "Expected"
             /\ Head(pret.err.expected) = "unary operator "
             /\ pret.err.actual = pargs[1].kind
    /\ pcall = "ExprUnary::parse_with_meta" /\ pret.ok =>
        /\ OpsAgree(pret.value)
        /\ pret.value.node = "ExprUnary"
        /\ pret.value.op_token = Head(pbefore.stream)

\* parse_with_meta parsed `!*a`: a Not whose operand is a Deref.
C29_Witness ==
    /\ pcall = "ExprUnary::parse_with_meta"
    /\ pret.ok
    /\ pret.value.op = "Not"
    /\ pret.value.op_token = Tok("Bang", 0, 1)
    /\ pret.value.expr.node = "ExprUnary"
    /\ pret.value.expr.op = "Deref"
    /\ stream = <<>>

\* The path is one plain identifier: no leading separator, no trailing
\* separator, no further segment.
SingleIdent(p) ==
    /\ p.leading_colon = "None"
    /\ p.trailing = "None"
    /\ p.rest = <<>>
    /\ p.first.kind = "Ident"

\* C30: Path::try_as_ident and Path::try_as_ident_mut return the identifier
\* of the path exactly when the path is one plain identifier, return None for
\* crate, super, self, Self and for every longer path, and leave the path as
\* it was.
C30_TryAsIdent ==
    pcall \in {"Path::try_as_ident", "Path::try_as_ident_mut"} =>
        /\ SingleIdent(pbefore.path) => pret = pbefore.path.first.ident /\ pret /= NoIdent
        /\ ~SingleIdent(pbefore.path) => pret = NoIdent
        /\ path = pbefore.path

\* try_as_ident_mut returned the identifier of the path `a`.
C30_Witness ==
    /\ pcall = "Path::try_as_ident_mut"
    /\ SingleIdent(path)
    /\ path.first.ident = "a"
    /\ pret = "a"

\* The kinds PathSegment::parse is said to accept.
SegmentStarts == {"Ident", "Crate", "Super", "Self_", "SelfType"}

\* C31: PathSegment::parse succeeds exactly on the kinds identifier, crate,
\* super, self and Self; PathSegment::peek(t1, _) is true exactly for a token
\* of those kinds, so that it agrees with parse on the token the parser
\* stands at.
C31_PeekAgreesWithParse ==
    /\ pcall = "PathSegment::parse" => (pret.ok <=> KindBefore \in SegmentStarts)
    /\ pcall = "PathSegment::peek" =>
        /\ pret = (pargs[1] /= NoToken /\ pargs[1].kind \in SegmentStarts)
        /\ (stream /= <<>> /\ pargs[1] = Head(stream) => pret = PathSegmentParse(stream).ok)

\* PathSegment::peek said no to a `self` that PathSegment::parse accepts.
C31_Witness ==
    /\ pcall = "PathSegment::peek"
    /\ stream /= <<>>
    /\ pargs[1] = Head(stream)
    /\ pargs[1].kind = "Self_"
    /\ pret = FALSE
    /\ PathSegmentParse(stream).ok
    /\ PathSegmentParse(stream).value.kind = "SelfValue"

\* The last call was span() on a while loop.
SpanCalled == pcall = "ExprWhile::span"

\* C32: the span of a while loop starts where its `while` keyword starts and
\* ends where its body ends, with or without a label; a label, which stands
\* before the keyword, is outside the span.
C32_WhileSpan ==
    /\ SpanCalled =>
        /\ pargs[1].while_.kind = "While"
        /\ pargs[1].body.close.kind = "CloseBrace"
        /\ pret = [start |-> pargs[1].while_.start, end |-> pargs[1].body.close.end]
        /\ pargs[1].label /= NoLabel =>
            /\ pargs[1].label.label.kind = "Label"
            /\ pargs[1].label.colon.end <= pret.start
            /\ pargs[1].label.label.start < pret.start
    /\ pcall = "ExprWhile::parse" /\ pret.ok =>
        /\ (pret.value.label /= NoLabel <=> KindBefore = "Label")
        /\ pret.value.label /= NoLabel => pret.value.label.label = Head(pbefore.stream)
        /\ pret.value.label = NoLabel => pret.value.while_ = Head(pbefore.stream)

\* span() of the loop `l: while c { x }`, which excludes the label and
\* its colon.
C32_Witness ==
    /\ SpanCalled
    /\ pargs[1].label /= NoLabel
    /\ pargs[1].label.label = Tok("Label", 0, 1)
    /\ pargs[1].while_ = Tok("While", 2, 3)
    /\ pret = [start |-> 2, end |-> 7]

Produced == tokens \o buffer

\* Where the i-th element of the template starts and ends in the source.
ElemStart(i) == 1 + Len(Flatten(SubSeq(elems, 1, i - 1)))

ElemEnd(i) == ElemStart(i) + Len(elems[i].text)

\* The i-th element is done with: a segment has been produced, a hole has
\* been closed.
ElemDone(i) ==
    IF elems[i].kind = "lit" THEN pos > ElemEnd(i) ELSE pos >= ElemEnd(i)

\* The commas of the template, given that one is produced before an element
\* exactly when the counter is positive there: before every segment produced
\* and every hole opened but the first element; the comma of a segment has
\* the span of the segment, that of a hole the span of its `{`.
ExpectedCommas ==
    {Tok("Comma", ElemStart(i), ElemEnd(i)) :
        i \in {j \in 2..Len(elems) : elems[j].kind = "lit" /\ ElemDone(j)}}
    \cup
    {Tok("Comma", ElemStart(i), ElemStart(i) + 1) :
        i \in {j \in 2..Len(elems) : elems[j].kind = "hole" /\ pos > ElemStart(j)}}

\* C34: while a template is lexed the counter of its frame is the number of
\* its segments produced plus the number of its holes closed; a Comma is
\* produced before a segment or a hole exactly when the counter is positive
\* there, and directly before the segment; the template closes without a
\* mode error and leaves no frame.
C34_ExpressionCounter ==
    /\ modes /= <<>> /\ modes[1].kind = "Template" =>
        modes[1].n = Cardinality({i \in 1..Len(elems) : ElemDone(i)})
    /\ {Produced[k] : k \in {j \in 1..Len(Produced) : Produced[j].kind = "Comma"}}
        = ExpectedCommas
    /\ \A i \in 1..Len(elems) :
        elems[i].kind = "lit" /\ ElemDone(i) =>
            \E k \in 3..Len(Produced) :
                /\ Produced[k] = TokStr("LitStr", ElemStart(i), ElemEnd(i), elems[i].escaped, FALSE)
                /\ (i > 1 <=> Produced[k - 1] = Tok("Comma", ElemStart(i), ElemEnd(i)))
    /\ NextCall.res /= "error"
    /\ lres = "eof" => modes = <<>>

\* In the template of a segment and two holes the counter is 2 when the
\* second hole opens, and the comma of that hole was returned.
C34_Witness ==
    /\ Len(elems) = 3
    /\ elems[1] = Segment(<<"a">>, FALSE)
    /\ elems[2].kind = "hole"
    /\ elems[3].kind = "hole"
    /\ modes = <<ModeTemplate(2), ModeDefault(1)>>
    /\ ltok = Tok("Comma", ElemStart(3), ElemStart(3) + 1)

\* Where the `{` of the hole the lexer is at stands.
HoleAt ==
    CHOOSE q \in pos..Len(source) - 1 :
        /\ source[q + 1] = "{"
        /\ \A k \in pos + 1..q : source[k] \notin {"{", "}", "\\", BackTick}

\* The tokens the next call produces: the one it returns and those it leaves
\* in the buffer.
NextProduced ==
    (IF NextCall.res = "token" THEN {NextCall.tok} ELSE {}) \cup Range(NextCall.buffer)

\* The lexer is in a hole, at depth n of its braces, about to read c.
InHoleAt(c, n) == AtChar(c) /\ ModesLast(modes) = ModeDefault(n)

\* The frames but the top one.
Below(ms) == SubSeq(ms, 1, Len(ms) - 1)

\* C35: the `{` that opens a hole and the `}` that closes it produce no
\* token; a `{` inside a hole is an Open(Brace) token and goes one level down,
\* a `}` below the first level is a Close(Brace) token and comes one level up;
\* the `}` at the first level ends the hole, and what follows it is lexed as
\* text of the template: a segment up to the closing back-tick, or the error
\* of a template that the input leaves open.
C35_HoleBraces ==
    /\ AtHole => \A t \in NextProduced : ~(t.kind = "OpenBrace" /\ t.start = HoleAt)
    /\ \A n \in 1..Len(source) :
        /\ InHoleAt("{", n) =>
            NextCall = RetToken(pos + 1, Append(modes, ModeDefault(n + 1)), <<>>,
                                Tok("OpenBrace", pos, pos + 1))
        /\ InHoleAt("}", n) /\ n >= 2 =>
            NextCall = RetToken(pos + 1, Below(modes), <<>>,
                                Tok("CloseBrace", pos, pos + 1))
    /\ InHoleAt("}", 1) =>
        /\ \A t \in NextProduced : t.start > pos
        /\ pos + 1 = Len(source) =>
            /\ NextCall.res = "error"
            /\ NextCall.err.kind = "UnexpectedEof"
        /\ pos + 3 = Len(source) /\ source[pos + 2] = "a" /\ source[pos + 3] = BackTick =>
            /\ NextCall.res = "token"
            /\ NextCall.tok = Tok("Comma", pos + 1, pos + 2)
            /\ NextCall.buffer = <<TokStr("LitStr", pos + 1, pos + 2, FALSE, FALSE),
                                   Tok("CloseBrace", pos + 2, pos + 3)>>
            /\ NextCall.modes = Below(Below(modes))

\* In a template left open after its hole, the braces of the hole gave no
\* token and the two braces inside it gave one each.
C35_Witness ==
    /\ source = <<BackTick, "{", "{", "}", "}">>
    /\ tokens = <<Tok("Template", 0, 1), Tok("OpenBrace", 0, 1),
                  Tok("OpenBrace", 2, 3), Tok("CloseBrace", 3, 4)>>
    /\ lres = "error"
    /\ lerr.kind = "UnexpectedEof"

\* C36: whatever the input and however many calls are made, errors included,
\* no call returns ExpectedTemplateMode, and a call returns BadLexerMode only
\* when it reaches the end of the input with frames on the mode stack: the
\* error is at the end of the source, the frame popped leaves another under
\* it, and the call has read neither a `}` nor a back-tick.
C36_ModeErrors ==
    /\ lerr.kind /= "ExpectedTemplateMode"
    /\ NextCall.err.kind /= "ExpectedTemplateMode"
    /\ NextCall.err.kind = "BadLexerMode" =>
        /\ NextCall.err = Err("BadLexerMode", Len(source), Len(source))
        /\ NextCall.pos = Len(source)
        /\ NextCall.modes /= <<>>
        /\ Len(NextCall.modes) >= Len(modes) - 1
        /\ \A k \in pos + 1..Len(source) : source[k] \notin {"}", BackTick}
    /\ lerr.kind = "BadLexerMode" => pos = Len(source) /\ modes /= <<>>

\* The input ended two braces deep in a hole: the second call made at its end
\* returned BadLexerMode like the first, and left the frame of the template.
C36_Witness ==
    /\ source = <<BackTick, "{", "{">>
    /\ lres = "error"
    /\ lerr.kind = "BadLexerMode"
    /\ modes = <<ModeTemplate(0)>>
    /\ tokens = <<Tok("Template", 0, 1), Tok("OpenBrace", 0, 1), Tok("OpenBrace", 2, 3)>>

\* C37: every token returned has a span that is not empty and lies in the
\* source, and no token starts before a token returned earlier; the same
\* holds of the tokens still in the buffer, which follow those returned.
C37_TokenSpans ==
    /\ \A i \in 1..Len(Produced) :
        /\ Produced[i].start < Produced[i].end
        /\ Produced[i].end <= Len(source)
    /\ \A i \in 1..Len(Produced) - 1 : Produced[i].start <= Produced[i + 1].start
    /\ NextCall.res = "token" =>
        /\ NextCall.tok.start < NextCall.tok.end
        /\ NextCall.tok.end <= Len(source)
        /\ tokens /= <<>> => tokens[Len(tokens)].start <= NextCall.tok.start

\* A template was lexed to its end whose tokens share spans: the Template and
\* its Open(Brace), and a Comma and the segment after it.
C37_Witness ==
    /\ lres = "eof"
    /\ Len(tokens) >= 5
    /\ tokens[1].kind = "Template"
    /\ tokens[2].kind = "OpenBrace"
    /\ tokens[1].start = tokens[2].start
    /\ \E i \in 3..Len(tokens) - 1 :
        /\ tokens[i].kind = "Comma"
        /\ tokens[i + 1].kind = "LitStr"
        /\ tokens[i].start = tokens[i + 1].start
        /\ tokens[i].end = tokens[i + 1].end

\* What is left to do: three for each character not yet read, since reading
\* one character buffers at most three tokens, and one for each token in the
\* buffer.
Measure(p, buf) == 3 * (Len(source) - p) + Len(buf)

\* C38: every call of Lexer::next returns a token, end-of-input or an error;
\* a pass of template_next that goes on has read a character; a call that
\* returns a token has read a character or taken a token from the buffer, so
\* that what is left to do gets less; the tokens returned and what is left to
\* do never exceed three times the length of the source, so that a caller is
\* returned end-of-input or an error after at most that many tokens.
C38_Terminates ==
    /\ NextCall.res \in {"token", "eof", "error"}
    /\ buffer = <<>> /\ ModesLast(modes).kind = "Template" =>
        LET r == TemplateNext(pos, modes, buffer) IN
        r.res = "continue" => r.pos > pos
    /\ NextCall.res = "token" =>
        Measure(NextCall.pos, NextCall.buffer) < Measure(pos, buffer)
    /\ NextCall.pos >= pos
    /\ pos <= Len(source)
    /\ Len(tokens) + Measure(pos, buffer) <= 3 * Len(source)

\* A comment, a line break and a template with a hole were lexed to the end
\* of the input.
C38_Witness ==
    /\ source = <<"/", "/", "\n", BackTick, BackTick>>
    /\ lres = "eof"
    /\ Len(tokens) = 3
    /\ pos = Len(source)
    /\ buffer = <<>>

\* C39: once a call has returned end-of-input, the next call returns it
\* again and leaves the cursor, the mode stack and the buffer as they are;
\* the state the call is made in is then the state every later call is made
\* in.
C39_EofIsFinal ==
    lres = "eof" =>
        /\ NextCall.res = "eof"
        /\ NextCall.pos = pos
        /\ NextCall.modes = modes
        /\ NextCall.buffer = buffer
        /\ NextCall.tok = NoToken
        /\ NextCall.err = NoError

\* End-of-input was returned after two identifiers and the blank after them.
C39_Witness ==
    /\ lres = "eof"
    /\ source = <<"a", " ", "a", " ">>
    /\ Len(tokens) = 2
    /\ NextCall.res = "eof"

(***************************************************************************)
(*                   A FURTHER CLAIM ABOUT THE WORKER                      *)
(***************************************************************************)

\* The task at the front of the queue is a load-file task that fails before
\* indexing: its source is missing or does not parse.
FailingLoadAhead ==
    /\ wpc = "loop"
    /\ queue /= <<>>
    /\ Head(queue).kind = "LoadFile"
    /\ \/ SourcesGet(Head(queue).source_id) = "none"
       \/ ~ParseAll(SourcesGet(Head(queue).source_id))

\* C40: the turn of the loop on a load-file task whose source is missing or
\* does not parse takes the task off the queue and appends one error for its
\* source; it indexes nothing, enqueues nothing, and leaves the rest of the
\* queue, the loaded files and the deferred wildcard imports as they were.
C40_FailedLoadFrame ==
    [][FailingLoadAhead =>
        /\ queue' = Tail(queue)
        /\ Len(errors') = Len(errors) + 1
        /\ SubSeq(errors', 1, Len(errors)) = errors
        /\ errors'[Len(errors')].source_id = Head(queue).source_id
        /\ loaded' = loaded
        /\ wildcard_imports' = wildcard_imports
        /\ indexed' = indexed
        /\ enqueued' = enqueued
        /\ gen' = gen]_vars

\* A load-file task failed on a missing source with another task behind it,
\* which is still queued.
C40_Witness ==
    /\ Len(failed) = 1
    /\ Len(dequeued) = 1
    /\ SourcesGet(failed[1].source_id) = "none"
    /\ errors = <<[source_id |-> failed[1].source_id, kind |-> "internal"]>>
    /\ Len(queue) = 1
    /\ indexed = <<>>
    /\ Len(enqueued) = 2

====
